---- MODULE Spec2Model ----
(***************************************************************************)
(* Model of the flow deployer (cmd/deployer/deploy.go): the `deploy`       *)
(* command's build -> push -> deploy -> attach -> report pipeline and the  *)
(* standalone `push` command.                                              *)
(*                                                                         *)
(* Strings are sequences of tokens (each token a piece of text without     *)
(* separators, or one separator such as "/", ":", "."), so that            *)
(* strings.Split / strings.Contains / strings.TrimSpace are computed as    *)
(* the code computes them.  Every external command the program runs is     *)
(* appended to `log` together with the function that issued it, its        *)
(* argument and whether it succeeded; the outcome of an external command   *)
(* is chosen by the environment.                                           *)
(***************************************************************************)
EXTENDS Integers, Sequences, FiniteSets, TLC

VARIABLES
    command,     \* which cobra command runs: "deploy" or "push"
    pc,          \* position inside the command's RunE
    flags,       \* the command-line flags the run was started with
    environ,     \* what os.Getenv returned for AWS_ACCOUNT_ID and ECR_URL
    imageRef,    \* the image reference (local variable imageRef)
    accountID,   \* dockerPushWithECRLogin's accountID
    packPath,    \* buildApplication's packPath ("" when no pack CLI)
    markers,     \* files createDockerfile found in appPath
    dockerfile,  \* the template createDockerfile returned
    log,         \* external commands issued so far, in order
    ret,         \* value each stage function returned ("none" before)
    warnings,    \* warnings printed by the run
    result,      \* what RunE returned: "none" | "nil" | "err" | "panic"
    err,         \* the error RunE returned, outermost message first
    cluster,     \* the Knative services and the Secrets of the cluster
    agent,       \* the fields of the AIAgent
    store,       \* the tracking server's Store.deployments
    calls        \* concurrent operations in flight, each with its position

vars == <<command, pc, flags, environ, imageRef, accountID, packPath, markers,
          dockerfile, log, ret, warnings, result, err, cluster, agent,
          store, calls>>

-----------------------------------------------------------------------------
(* strings *)

\* strings.Contains(s, sub)
Contains(s, sub) ==
    \E i \in 0..(Len(s) - Len(sub)) :
        \A k \in 1..Len(sub) : s[i + k] = sub[k]

\* strings.Split(s, sep) for a one-token separator: always at least one part
Split(s, sep) ==
    LET RECURSIVE go(_, _, _)
        go(i, cur, acc) ==
            IF i > Len(s) THEN Append(acc, cur)
            ELSE IF s[i] = sep THEN go(i + 1, <<>>, Append(acc, cur))
            ELSE go(i + 1, Append(cur, s[i]), acc)
    IN go(1, <<>>, <<>>)

IsSpace(t) == t \in {" ", "\n"}

\* strings.TrimSpace(s)
TrimSpace(s) ==
    LET keep == {i \in 1..Len(s) : ~IsSpace(s[i])}
    IN IF keep = {} THEN <<>>
       ELSE LET lo == CHOOSE i \in keep : \A j \in keep : i <= j
                hi == CHOOSE i \in keep : \A j \in keep : j <= i
            IN SubSeq(s, lo, hi)

\* the text ".dkr.ecr."
DkrEcr == <<".", "dkr", ".", "ecr", ".">>

\* region: AWS_REGION, AWS_DEFAULT_REGION or the default "us-east-1"
Region == <<"us-east-1">>

\* fmt.Sprintf("%s.dkr.ecr.%s.amazonaws.com/%s:latest", accountID, region, projectName)
EcrImageRef(acct, project) ==
    acct \o DkrEcr \o Region \o <<".", "amazonaws", ".", "com", "/">>
         \o project \o <<":", "latest">>

\* fmt.Sprintf("%s:latest", projectName)
LocalImageRef(project) == project \o <<":", "latest">>

\* getProjectName(): the last "/"-separated part of the working directory
WorkingDir == <<"/", "home", "/", "myapp">>

getProjectName ==
    LET parts == Split(WorkingDir, "/") IN parts[Len(parts)]

-----------------------------------------------------------------------------
(* inputs *)

\* what `aws sts get-caller-identity` can do: fail, or print this text
StsOutputs == {<<"123456789012", "\n">>, <<"\n">>}

AccountEnvValues == {<<>>, <<"123456789012">>}

EcrUrlValues ==
    {<<>>,
     <<"123456789012">> \o DkrEcr \o Region \o <<".", "amazonaws", ".", "com">>,
     <<"dkr", "123456789012", ".", "example", ".", "com">>}

\* the environments a run can find; ECR_URL is only read when
\* AWS_ACCOUNT_ID is unset
Environments ==
    {e \in [AWS_ACCOUNT_ID : AccountEnvValues, ECR_URL : EcrUrlValues] :
        e.AWS_ACCOUNT_ID = <<>> \/ e.ECR_URL = <<>>}

\* environ before generateImageRef has called os.Getenv
NotRead == [AWS_ACCOUNT_ID |-> <<>>, ECR_URL |-> <<>>]

SecretLists == {<<>>, <<<<"KEY", "=", "value">>>>, <<<<"KEY">>>>}

DeployFlags ==
    [dbHost : {<<>>, <<"db.internal">>},
     redisHost : {<<>>, <<"redis.internal">>},
     secrets : SecretLists,
     serverURL : {<<>>, <<"http://tracker">>},
     image : {<<>>}]

\* --image values given to the standalone push command
PushImages ==
    {<<>>,
     <<"myapp", ":", "latest">>,
     <<"myapp">>,
     EcrImageRef(<<"123456789012">>, <<"myapp">>),
     EcrImageRef(<<"123456789012">>, <<"apps", "/", "myapp">>),
     <<"123456789012">> \o DkrEcr \o Region \o <<".", "amazonaws", ".", "com">>}

PushFlags ==
    [dbHost : {<<>>}, redisHost : {<<>>}, secrets : {<<>>}, serverURL : {<<>>},
     image : PushImages]

MarkerFiles == {"package.json", "requirements.txt", "go.mod"}

StageFunctions ==
    {"generateImageRef", "buildApplication", "dockerPushWithECRLogin",
     "knServiceApply", "configureECRPullPermissions", "attachDatabase",
     "attachRedis", "createSecrets", "report"}

\* the cluster before anything was deployed to it
EmptyCluster == [services |-> {}, secrets |-> {}]

\* no AIAgent has been constructed
NoAgent == [status |-> "none"]

\* the tracking server's store is empty and nothing runs concurrently
Quiet == store = <<>> /\ calls = <<>>

Init ==
    /\ command \in {"deploy", "push"}
    /\ flags \in (IF command = "deploy" THEN DeployFlags ELSE PushFlags)
    /\ environ = NotRead
    /\ pc = "start"
    /\ imageRef = <<>>
    /\ accountID = <<>>
    /\ packPath = "unset"
    /\ markers = {}
    /\ dockerfile = "none"
    /\ log = <<>>
    /\ ret = [f \in StageFunctions |-> "none"]
    /\ warnings = <<>>
    /\ result = "none"
    /\ err = <<>>
    /\ cluster = EmptyCluster
    /\ agent = NoAgent
    /\ Quiet

-----------------------------------------------------------------------------
(* bookkeeping shared by the steps *)

Logged(fn, op, arg, ok) ==
    Append(log, [fn |-> fn, op |-> op, arg |-> arg, ok |-> ok])

\* RunE returns: nil, or an error
Return(r, e) ==
    /\ pc' = "done"
    /\ result' = r
    /\ err' = e

Goto(p) ==
    /\ pc' = p
    /\ UNCHANGED <<result, err>>

Returned(fn, r) == ret' = [ret EXCEPT ![fn] = r]

-----------------------------------------------------------------------------
(* newDeployCmd: image reference *)

\* the account ID generateImageRef falls back to when the identity lookup
\* fails: AWS_ACCOUNT_ID, else the first "."-part of ECR_URL if it contains "dkr"
FallbackAccountID(env) ==
    IF env.AWS_ACCOUNT_ID # <<>> THEN env.AWS_ACCOUNT_ID
    ELSE IF env.ECR_URL # <<>>
         THEN LET parts == Split(env.ECR_URL, ".")
              IN IF Len(parts) > 0 /\ Contains(parts[1], <<"dkr">>)
                 THEN Split(parts[1], ".")[1]
                 ELSE <<>>
         ELSE <<>>

\* generateImageRef(projectName): [ref, err], err = <<>> meaning nil
generateImageRef(project, ok, out, env) ==
    IF ~ok
    THEN LET acct == FallbackAccountID(env)
         IN IF acct = <<>>
            THEN [ref |-> LocalImageRef(project), err |-> <<>>]
            ELSE [ref |-> EcrImageRef(acct, project), err |-> <<>>]
    ELSE LET acct == TrimSpace(out)
         IN IF acct = <<>>
            THEN [ref |-> <<>>, err |-> <<"AWS account ID is empty">>]
            ELSE [ref |-> EcrImageRef(acct, project), err |-> <<>>]

\* RunE of deploy, up to "Step 1": project name and image reference
DeployStart ==
    /\ command = "deploy"
    /\ pc = "start"
    /\ \E ok \in BOOLEAN, out \in StsOutputs, env \in Environments :
        LET g == generateImageRef(getProjectName, ok, out, env)
        IN /\ ok => env = NotRead
           /\ environ' = env
           /\ log' = Logged("generateImageRef", "aws sts get-caller-identity",
                            IF ok THEN out ELSE <<>>, ok)
           /\ imageRef' = g.ref
           /\ IF g.err # <<>>
              THEN /\ Returned("generateImageRef", "err")
                   /\ Return("err", <<"failed to generate image reference">> \o g.err)
              ELSE /\ Returned("generateImageRef", "nil")
                   /\ Goto("build")
    /\ UNCHANGED <<store, calls, agent, cluster, command, flags, accountID,
                   packPath, markers, dockerfile, warnings>>

-----------------------------------------------------------------------------
(* Build stage *)

PackLocations == {"execDir/cmd/deployer/pack", "execDir/pack", "PATH/pack"}

\* findBundledPack(): cmd/deployer/pack next to the executable, then pack
\* in the executable's own directory
findBundledPack(files) ==
    IF "execDir/cmd/deployer/pack" \in files THEN "execDir/cmd/deployer/pack"
    ELSE IF "execDir/pack" \in files THEN "execDir/pack"
    ELSE ""

\* faulty variant of findPackCLI: the system pack is preferred to the
\* bundled one
findPackCLI_PathFirst(files) ==
    IF "PATH/pack" \in files THEN "PATH/pack"
    ELSE findBundledPack(files)

\* findPackCLI(): the bundled pack, then exec.LookPath("pack"), then ""
findPackCLI(files) ==
    IF findBundledPack(files) # "" THEN findBundledPack(files)
    ELSE IF "PATH/pack" \in files THEN "PATH/pack"
    ELSE ""

\* faulty variant of createDockerfile: go.mod is looked for before
\* requirements.txt
createDockerfile_GoBeforePython(present) ==
    IF "package.json" \in present THEN "node:18-alpine"
    ELSE IF "go.mod" \in present THEN "golang:1.21-alpine"
    ELSE IF "requirements.txt" \in present THEN "python:3.11-slim"
    ELSE "alpine:latest"

\* createDockerfile(appPath): the template chosen from the files present
createDockerfile(present) ==
    IF "package.json" \in present THEN "node:18-alpine"
    ELSE IF "requirements.txt" \in present THEN "python:3.11-slim"
    ELSE IF "go.mod" \in present THEN "golang:1.21-alpine"
    ELSE "alpine:latest"

\* faulty variant of BuildApplication: a missing pack CLI is an error
BuildApplication_NoFallback ==
    /\ pc = "build"
    /\ \E files \in SUBSET PackLocations :
        /\ packPath' = findPackCLI(files)
        /\ IF packPath' = ""
           THEN /\ Returned("buildApplication", "err")
                /\ Return("err", <<"build failed", "pack CLI not found">>)
           ELSE /\ UNCHANGED ret
                /\ Goto("pack")
    /\ UNCHANGED <<store, calls, agent, cluster, command, flags, environ,
                   imageRef, accountID, markers, dockerfile, log, warnings>>

\* buildApplication, lines 423-427: look for the pack CLI
BuildApplication ==
    /\ pc = "build"
    /\ \E files \in SUBSET PackLocations :
        /\ packPath' = findPackCLI(files)
        /\ IF packPath' = "" THEN Goto("docker") ELSE Goto("pack")
    /\ UNCHANGED <<store, calls, agent, cluster, command, flags, environ,
                   imageRef, accountID, markers, dockerfile, log, ret,
                   warnings>>

\* faulty variant of PackBuild: a failed pack build is run once more before
\* the fallback
PackBuild_Retries ==
    /\ pc = "pack"
    /\ \E ok \in BOOLEAN :
        /\ log' = Logged("buildApplication", "pack build", imageRef, ok)
        /\ IF ok
           THEN /\ Returned("buildApplication", "nil")
                /\ Goto("push")
           ELSE /\ UNCHANGED ret
                /\ IF \E i \in DOMAIN log : log[i].op = "pack build"
                   THEN Goto("docker")
                   ELSE Goto("pack")
    /\ UNCHANGED <<store, calls, agent, cluster, command, flags, environ,
                   imageRef, accountID, packPath, markers, dockerfile,
                   warnings>>

\* buildApplication, lines 429-447: run pack build, fall back when it fails
PackBuild ==
    /\ pc = "pack"
    /\ \E ok \in BOOLEAN :
        /\ log' = Logged("buildApplication", "pack build", imageRef, ok)
        /\ IF ok
           THEN /\ Returned("buildApplication", "nil")
                /\ Goto("push")
           ELSE /\ UNCHANGED ret
                /\ Goto("docker")
    /\ UNCHANGED <<store, calls, agent, cluster, command, flags, environ,
                   imageRef, accountID, packPath, markers, dockerfile,
                   warnings>>

\* faulty variant of BuildWithDocker: the result of docker build is dropped
BuildWithDocker_DropsError ==
    /\ pc = "docker"
    /\ \E present \in SUBSET MarkerFiles, ok \in BOOLEAN :
        /\ markers' = present
        /\ dockerfile' = createDockerfile(present)
        /\ log' = Logged("buildWithDocker", "docker build", <<dockerfile'>>, ok)
        /\ Returned("buildApplication", "nil")
        /\ Goto("push")
    /\ UNCHANGED <<store, calls, agent, cluster, command, flags, environ,
                   imageRef, accountID, packPath, warnings>>

\* buildWithDocker: generate the Dockerfile and run docker build; its
\* result is what buildApplication returns
BuildWithDocker ==
    /\ pc = "docker"
    /\ \E present \in SUBSET MarkerFiles, ok \in BOOLEAN :
        /\ markers' = present
        /\ dockerfile' = createDockerfile(present)
        /\ log' = Logged("buildWithDocker", "docker build", <<dockerfile'>>, ok)
        /\ IF ok
           THEN /\ Returned("buildApplication", "nil")
                /\ Goto("push")
           ELSE /\ Returned("buildApplication", "err")
                /\ Return("err", <<"build failed", "exit status 1">>)
    /\ UNCHANGED <<store, calls, agent, cluster, command, flags, environ,
                   imageRef, accountID, packPath, warnings>>

-----------------------------------------------------------------------------
(* Push stage: dockerPushWithECRLogin *)

PushFn == "dockerPushWithECRLogin"

\* newPushCmd's RunE: the image is required, then dockerPushWithECRLogin
PushStart ==
    /\ command = "push"
    /\ pc = "start"
    /\ IF flags.image = <<>>
       THEN /\ Return("err", <<"image is required">>)
            /\ UNCHANGED imageRef
       ELSE /\ imageRef' = flags.image
            /\ Goto("push")
    /\ UNCHANGED <<store, calls, agent, cluster, command, flags, environ,
                   accountID, packPath, markers, dockerfile, log, ret,
                   warnings>>

\* faulty variant of PushEnd: deploy replaces the error of the push by its
\* own message
PushEnd_DropsCause(r, e) ==
    /\ Returned(PushFn, r)
    /\ IF r = "nil"
       THEN IF command = "deploy" THEN Goto("deploy") ELSE Return("nil", <<>>)
       ELSE IF r = "err"
       THEN Return("err", IF command = "deploy" THEN <<"push failed">> ELSE e)
       ELSE Return("panic", e)

\* dockerPushWithECRLogin returns r ("nil", "err", or "panic" for a run-time
\* panic) to its caller, which wraps an error (deploy) or returns it (push)
PushEnd(r, e) ==
    /\ Returned(PushFn, r)
    /\ IF r = "nil"
       THEN IF command = "deploy" THEN Goto("deploy") ELSE Return("nil", <<>>)
       ELSE IF r = "err"
       THEN Return("err", IF command = "deploy" THEN <<"push failed">> \o e ELSE e)
       ELSE Return("panic", e)

\* lines 245-251: parts, reg and repoName of the (registry-qualified) image
RegOf(ref) == Split(ref, "/")[1]

RepoNameOf(ref) == Split(Split(ref, "/")[2], ":")[1]

SplitImage(ref) ==
    LET parts == Split(ref, "/")
    IN IF Len(parts) < 1 THEN PushEnd("err", <<"invalid image">>)
       ELSE IF Len(parts) < 2
       THEN PushEnd("panic", <<"index out of range [1] with length 1">>)
       ELSE Goto("push_auth") /\ UNCHANGED ret

\* faulty variant of LoginFailed: the error of `docker login` is dropped
LoginFailed_Ignored == Goto("push_check") /\ UNCHANGED ret

\* what follows a failed `docker login`
LoginFailed == PushEnd("err", <<"failed to login to ECR", "exit status 1">>)

\* faulty variant of PushFailed: the failed push is recorded but the caller
\* goes on to the Deploy stage
PushFailed_Continues ==
    /\ Returned(PushFn, "err")
    /\ IF command = "deploy" THEN Goto("deploy") ELSE Return("nil", <<>>)

\* what follows a failed `docker push`
PushFailed ==
    PushEnd("err", <<"failed to push image to ECR", "exit status 1">>)

\* faulty variant of CreateFailed: the failed creation is dropped and the
\* image is pushed anyway
CreateFailed_Ignored == Goto("push_push") /\ UNCHANGED ret

\* what follows a failed `aws ecr create-repository`
CreateFailed ==
    PushEnd("err", <<"failed to create ECR repository", "exit status 1">>)

\* faulty variant of IsLocalImage: every reference is taken for a local one
IsLocalImage_Always(ref) == TRUE

\* line 231: a reference without ".dkr.ecr." is a local image name
IsLocalImage(ref) == ~Contains(ref, DkrEcr)

\* lines 218-227: resolve the account identity
PushGetCallerIdentity ==
    /\ pc = "push"
    /\ \E ok \in BOOLEAN, out \in StsOutputs :
        /\ log' = Logged(PushFn, "aws sts get-caller-identity",
                         IF ok THEN out ELSE <<>>, ok)
        /\ IF ~ok
           THEN /\ PushEnd("err", <<"failed to get AWS account ID for ECR push",
                                    "exit status 1">>)
                /\ UNCHANGED accountID
           ELSE IF TrimSpace(out) = <<>>
           THEN /\ PushEnd("err", <<"AWS account ID is empty">>)
                /\ accountID' = <<>>
           ELSE /\ accountID' = TrimSpace(out)
                /\ IF IsLocalImage(imageRef)
                   THEN Goto("push_tag") /\ UNCHANGED ret
                   ELSE SplitImage(imageRef)
    /\ UNCHANGED <<store, calls, agent, cluster, command, flags, environ,
                   imageRef, packPath, markers, dockerfile, warnings>>

\* lines 231-243: tag a local image for the registry
PushDockerTag ==
    /\ pc = "push_tag"
    /\ LET projectName == Split(imageRef, ":")[1]
           ecrImageRef == EcrImageRef(accountID, projectName)
       IN \E ok \in BOOLEAN :
            /\ log' = Logged(PushFn, "docker tag", ecrImageRef, ok)
            /\ IF ok
               THEN /\ imageRef' = ecrImageRef
                    /\ SplitImage(ecrImageRef)
               ELSE /\ UNCHANGED imageRef
                    /\ PushEnd("err", <<"failed to tag image for ECR",
                                        "exit status 1">>)
    /\ UNCHANGED <<store, calls, agent, cluster, command, flags, environ,
                   accountID, packPath, markers, dockerfile, warnings>>

\* lines 253-258: obtain the registry credential
PushGetLoginPassword ==
    /\ pc = "push_auth"
    /\ \E ok \in BOOLEAN :
        /\ log' = Logged(PushFn, "aws ecr get-login-password", Region, ok)
        /\ IF ok
           THEN Goto("push_login") /\ UNCHANGED ret
           ELSE PushEnd("err", <<"failed to get ECR login password",
                                 "exit status 1">>)
    /\ UNCHANGED <<store, calls, agent, cluster, command, flags, environ,
                   imageRef, accountID, packPath, markers, dockerfile,
                   warnings>>

\* lines 260-265: authenticate the image tool against the registry
PushDockerLogin ==
    /\ pc = "push_login"
    /\ \E ok \in BOOLEAN :
        /\ log' = Logged(PushFn, "docker login", RegOf(imageRef), ok)
        /\ IF ok
           THEN Goto("push_check") /\ UNCHANGED ret
           ELSE LoginFailed
    /\ UNCHANGED <<store, calls, agent, cluster, command, flags, environ,
                   imageRef, accountID, packPath, markers, dockerfile,
                   warnings>>

\* lines 267-270: check whether the repository exists
PushDescribeRepositories ==
    /\ pc = "push_check"
    /\ \E ok \in BOOLEAN :
        /\ log' = Logged(PushFn, "aws ecr describe-repositories",
                         RepoNameOf(imageRef), ok)
        /\ IF ok THEN Goto("push_push") ELSE Goto("push_create")
    /\ UNCHANGED <<store, calls, agent, cluster, command, flags, environ,
                   imageRef, accountID, packPath, markers, dockerfile, ret,
                   warnings>>

\* lines 271-278: create the repository the check did not find
PushCreateRepository ==
    /\ pc = "push_create"
    /\ \E ok \in BOOLEAN :
        /\ log' = Logged(PushFn, "aws ecr create-repository",
                         RepoNameOf(imageRef), ok)
        /\ IF ok
           THEN Goto("push_push") /\ UNCHANGED ret
           ELSE CreateFailed
    /\ UNCHANGED <<store, calls, agent, cluster, command, flags, environ,
                   imageRef, accountID, packPath, markers, dockerfile,
                   warnings>>

\* lines 280-287: push the image
PushDockerPush ==
    /\ pc = "push_push"
    /\ \E ok \in BOOLEAN :
        /\ log' = Logged(PushFn, "docker push", imageRef, ok)
        /\ IF ok THEN PushEnd("nil", <<>>) ELSE PushFailed
    /\ UNCHANGED <<store, calls, agent, cluster, command, flags, environ,
                   imageRef, accountID, packPath, markers, dockerfile,
                   warnings>>

-----------------------------------------------------------------------------
(* Deploy stage, attachments and report: newDeployCmd lines 128-180 *)

\* faulty variant of SecretName: the suffix is left out
SecretName_NoSuffix(project, suffix) == project

\* name + "-db", name + "-redis", name + "-secrets"
SecretName(project, suffix) == project \o <<suffix>>

\* what getClient and a Get followed by Update or Create of a Secret can
\* come to
ApplyOutcomes ==
    {"getClient failed", "updated", "update failed", "created", "create failed"}

Applied(r) == r \in {"updated", "created"}

\* createSecrets lines 607-613: a pair without "=" is invalid
ValidPair(p) == Len(Split(p, "=")) >= 2

\* strings.SplitN(p, "=", 2) of a pair that has a "="
SplitN2(p) ==
    LET i == CHOOSE k \in 1..Len(p) :
                 p[k] = "=" /\ \A j \in 1..(k - 1) : p[j] # "="
    IN <<SubSeq(p, 1, i - 1), SubSeq(p, i + 1, Len(p))>>

\* the map built from key=value pairs: a later pair of a key replaces an
\* earlier one, a pair without "=" adds nothing
toEnvMap(pairs) ==
    LET valid == {i \in DOMAIN pairs : ValidPair(pairs[i])}
        keys == {SplitN2(pairs[i])[1] : i \in valid}
        last(k) == CHOOSE i \in valid :
                       /\ SplitN2(pairs[i])[1] = k
                       /\ \A j \in valid :
                             SplitN2(pairs[j])[1] = k => j <= i
    IN [k \in keys |-> SplitN2(pairs[last(k)])[2]]

\* whether the cluster holds an object of that name (one namespace)
Found(objects, name) == \E o \in objects : o.name = name

\* what the environment does to one call: whether getClient builds a
\* client, whether the Get and the Update or Create reach the API server
\* (one of them failing at a time)
Healthy == [client |-> TRUE, get |-> TRUE, write |-> TRUE]

Fates ==
    {Healthy, [Healthy EXCEPT !.client = FALSE],
     [Healthy EXCEPT !.get = FALSE], [Healthy EXCEPT !.write = FALSE]}

\* corev1.Secret{ObjectMeta{Name}, StringData}
Secret(name, data) == [name |-> name, data |-> data]

NoObject == [name |-> <<>>, data |-> <<>>]

\* Secrets(ns).Get: err == nil when the call gets through and finds it
SecretsGet(secrets, name, up) == up /\ Found(secrets, name)

\* Secrets(ns).Update: replaces the Secret of that name
SecretsUpdate(secrets, sec, up) ==
    IF up /\ Found(secrets, sec.name)
    THEN [secrets |-> {o \in secrets : o.name # sec.name} \cup {sec},
          out |-> "updated", obj |-> sec]
    ELSE [secrets |-> secrets, out |-> "update failed", obj |-> sec]

\* Secrets(ns).Create: AlreadyExists when a Secret of that name is there
SecretsCreate(secrets, sec, up) ==
    IF up /\ ~Found(secrets, sec.name)
    THEN [secrets |-> secrets \cup {sec}, out |-> "created", obj |-> sec]
    ELSE [secrets |-> secrets, out |-> "create failed", obj |-> sec]

\* faulty variant of UpsertSecret: the Secret is created without a Get
UpsertSecret_AlwaysCreates(secrets, sec, fate) ==
    SecretsCreate(secrets, sec, fate.write)

\* lines 567-573 (591-597, 623-629): Get, Update when found, else Create
UpsertSecret(secrets, sec, fate) ==
    IF SecretsGet(secrets, sec.name, fate.get)
    THEN SecretsUpdate(secrets, sec, fate.write)
    ELSE SecretsCreate(secrets, sec, fate.write)

\* a call that returned before it built or sent a Secret
Refused(secrets, why) == [secrets |-> secrets, out |-> why, obj |-> NoObject]

\* fmt.Sprintf("postgres://%s:%s@%s:%d/%s", user, password, host, port, db)
\* with the flags' defaults for user, password and port
DatabaseURL(host, db) ==
    <<"postgres://", "app", ":", "changeme", "@">> \o host
        \o <<":", "5432", "/">> \o db

\* fmt.Sprintf("redis://:%s@%s:%d", password, host, port) with the defaults
RedisURL(host) == <<"redis://:", "", "@">> \o host \o <<":", "6379">>

attachDatabase(secrets, name, host, db, fate) ==
    IF ~fate.client THEN Refused(secrets, "getClient failed")
    ELSE UpsertSecret(secrets,
                      Secret(SecretName(name, "-db"),
                             [DATABASE_URL |-> DatabaseURL(host, db)]),
                      fate)

attachRedis(secrets, name, host, fate) ==
    IF ~fate.client THEN Refused(secrets, "getClient failed")
    ELSE UpsertSecret(secrets,
                      Secret(SecretName(name, "-redis"),
                             [REDIS_URL |-> RedisURL(host)]),
                      fate)

\* faulty variant of createSecrets: an invalid pair is left out and the
\* others are stored
createSecrets_SkipsInvalid(secrets, name, pairs, fate) ==
    IF ~fate.client THEN Refused(secrets, "getClient failed")
    ELSE UpsertSecret(secrets,
                      Secret(SecretName(name, "-secrets"),
                             toEnvMap(SelectSeq(pairs, ValidPair))),
                      fate)

createSecrets(secrets, name, pairs, fate) ==
    IF ~fate.client THEN Refused(secrets, "getClient failed")
    ELSE IF \E i \in DOMAIN pairs : ~ValidPair(pairs[i])
    THEN Refused(secrets, "invalid secret pair")
    ELSE UpsertSecret(secrets,
                      Secret(SecretName(name, "-secrets"), toEnvMap(pairs)),
                      fate)

\* the annotation autoscaling.knative.dev/minScale of the rendered service
MinScaleAnnotation_Zero == "0"

MinScaleAnnotation == "1"

\* the service the YAML of newKnServiceYAML describes: cpu and mem are
\* parameters the format string does not use
newKnServiceYAML(name, image, ns, cpu, mem, env, port) ==
    [name |-> name,
     namespace |-> ns,
     minScale |-> MinScaleAnnotation,
     image |-> image,
     port |-> port,
     env |-> env]

\* the kubectl sub-command knServiceApply runs
KubectlVerb_Create == "create"

KubectlVerb == "apply"

\* kubectl <verb> -f - on a service: apply creates the service or
\* configures the one of that name, create refuses an existing name
Kubectl(verb, services, y, up) ==
    IF ~up THEN [services |-> services, out |-> "exit status 1", obj |-> y]
    ELSE IF ~Found(services, y.name)
    THEN [services |-> services \cup {y}, out |-> "created", obj |-> y]
    ELSE IF verb = "apply"
    THEN [services |-> {o \in services : o.name # y.name} \cup {y},
          out |-> "configured", obj |-> y]
    ELSE [services |-> services, out |-> "AlreadyExists", obj |-> y]

knServiceApply(services, name, image, ns, cpu, mem, env, port, up) ==
    Kubectl(KubectlVerb, services,
            newKnServiceYAML(name, image, ns, cpu, mem, env, port), up)

\* the flags' defaults of the deploy command
DefaultNamespace == "default"

DefaultPort == 8080

DefaultCpu == "250m"

DefaultMem == "256Mi"

\* what a call records: its inputs, the object it sent, how it ended
Call(in, a, healthy) ==
    [in |-> in, obj |-> a.obj, out |-> a.out, healthy |-> healthy]

\* the arguments RunE hands to knServiceApply: the flags' defaults
DeployService ==
    [name |-> getProjectName, image |-> imageRef, ns |-> DefaultNamespace,
     cpu |-> DefaultCpu, mem |-> DefaultMem, envs |-> <<>>,
     port |-> DefaultPort]

\* knServiceApply on the cluster's services with arguments in
ApplyService(services, in, up) ==
    knServiceApply(services, in.name, in.image, in.ns, in.cpu, in.mem,
                   toEnvMap(in.envs), in.port, up)

ServiceApplied(a) == a.out \in {"created", "configured"}

\* faulty variant of KnServiceApply: a failed apply is not returned and the
\* run goes on to the pull permissions and the attachments
KnServiceApply_IgnoresError ==
    /\ pc = "deploy"
    /\ \E up \in BOOLEAN :
        LET a == ApplyService(cluster.services, DeployService, up)
        IN /\ cluster' = [cluster EXCEPT !.services = a.services]
           /\ log' = Logged("knServiceApply", "kubectl apply",
                            Call(DeployService, a, up), ServiceApplied(a))
           /\ Returned("knServiceApply",
                       IF ServiceApplied(a) THEN "nil" ELSE "err")
           /\ Goto("ecr_perm")
    /\ UNCHANGED <<store, calls, agent, command, flags, environ, imageRef,
                   accountID, packPath, markers, dockerfile, warnings>>

\* Step 3: knServiceApply runs kubectl apply on the rendered service
KnServiceApply ==
    /\ pc = "deploy"
    /\ \E up \in BOOLEAN :
        LET a == ApplyService(cluster.services, DeployService, up)
        IN /\ cluster' = [cluster EXCEPT !.services = a.services]
           /\ log' = Logged("knServiceApply", "kubectl apply",
                            Call(DeployService, a, up), ServiceApplied(a))
           /\ IF ServiceApplied(a)
              THEN /\ Returned("knServiceApply", "nil")
                   /\ Goto("ecr_perm")
              ELSE /\ Returned("knServiceApply", "err")
                   /\ Return("err", <<"deploy failed", a.out>>)
    /\ UNCHANGED <<store, calls, agent, command, flags, environ, imageRef,
                   accountID, packPath, markers, dockerfile, warnings>>

\* Step 3.5: a failure to configure pull permissions is only a warning
ConfigureECRPullPermissions ==
    /\ pc = "ecr_perm"
    /\ \E ok \in BOOLEAN :
        /\ log' = Logged("configureECRPullPermissions",
                         "configure ECR pull permissions", getProjectName, ok)
        /\ Returned("configureECRPullPermissions", IF ok THEN "nil" ELSE "err")
        /\ warnings' = IF ok THEN warnings
                       ELSE Append(warnings,
                                   "Failed to configure ECR pull permissions")
    /\ Goto("attach_db")
    /\ UNCHANGED <<store, calls, agent, cluster, command, flags, environ,
                   imageRef, accountID, packPath, markers, dockerfile>>

\* Step 4: attachDatabase when --db-host is given; --db-name defaults to ""
AttachDatabase ==
    /\ pc = "attach_db"
    /\ IF flags.dbHost = <<>>
       THEN /\ Goto("attach_redis")
            /\ UNCHANGED <<log, ret, cluster>>
       ELSE \E fate \in Fates :
            LET a == attachDatabase(cluster.secrets, getProjectName,
                                    flags.dbHost, <<>>, fate)
            IN /\ cluster' = [cluster EXCEPT !.secrets = a.secrets]
               /\ log' = Logged("attachDatabase", "apply secret",
                                Call([name |-> getProjectName,
                                      value |-> flags.dbHost],
                                     a, fate = Healthy),
                                Applied(a.out))
               /\ IF Applied(a.out)
                  THEN /\ Returned("attachDatabase", "nil")
                       /\ Goto("attach_redis")
                  ELSE /\ Returned("attachDatabase", "err")
                       /\ Return("err", <<"database attach failed", a.out>>)
    /\ UNCHANGED <<store, calls, agent, command, flags, environ, imageRef,
                   accountID, packPath, markers, dockerfile, warnings>>

\* Step 5: attachRedis when --redis-host is given
AttachRedis ==
    /\ pc = "attach_redis"
    /\ IF flags.redisHost = <<>>
       THEN /\ Goto("attach_secrets")
            /\ UNCHANGED <<log, ret, cluster>>
       ELSE \E fate \in Fates :
            LET a == attachRedis(cluster.secrets, getProjectName,
                                 flags.redisHost, fate)
            IN /\ cluster' = [cluster EXCEPT !.secrets = a.secrets]
               /\ log' = Logged("attachRedis", "apply secret",
                                Call([name |-> getProjectName,
                                      value |-> flags.redisHost],
                                     a, fate = Healthy),
                                Applied(a.out))
               /\ IF Applied(a.out)
                  THEN /\ Returned("attachRedis", "nil")
                       /\ Goto("attach_secrets")
                  ELSE /\ Returned("attachRedis", "err")
                       /\ Return("err", <<"redis attach failed", a.out>>)
    /\ UNCHANGED <<store, calls, agent, command, flags, environ, imageRef,
                   accountID, packPath, markers, dockerfile, warnings>>

\* Step 6: createSecrets when --secret pairs are given
CreateSecrets ==
    /\ pc = "attach_secrets"
    /\ IF Len(flags.secrets) = 0
       THEN /\ Goto("report")
            /\ UNCHANGED <<log, ret, cluster>>
       ELSE \E fate \in Fates :
            LET a == createSecrets(cluster.secrets, getProjectName,
                                   flags.secrets, fate)
            IN /\ cluster' = [cluster EXCEPT !.secrets = a.secrets]
               /\ log' = Logged("createSecrets", "apply secret",
                                Call([name |-> getProjectName,
                                      value |-> flags.secrets],
                                     a, fate = Healthy),
                                Applied(a.out))
               /\ IF Applied(a.out)
                  THEN /\ Returned("createSecrets", "nil")
                       /\ Goto("report")
                  ELSE /\ Returned("createSecrets", "err")
                       /\ Return("err", <<"secrets creation failed", a.out>>)
    /\ UNCHANGED <<store, calls, agent, command, flags, environ, imageRef,
                   accountID, packPath, markers, dockerfile, warnings>>

\* faulty variant of AfterReport: the report's error is returned
AfterReport_Propagates(ok) ==
    IF ok THEN Return("nil", <<>>)
    ELSE Return("err", <<"report failed", "exit status 1">>)

\* what RunE returns after the report: the report's own error is dropped
AfterReport(ok) == Return("nil", <<>>)

\* lines 165-180: report the deployment when --server is given, then succeed
Report ==
    /\ pc = "report"
    /\ IF flags.serverURL = <<>>
       THEN /\ UNCHANGED <<log, ret>>
            /\ Return("nil", <<>>)
       ELSE \E ok \in BOOLEAN :
            /\ log' = Logged("report", "curl POST /deployments",
                             flags.serverURL, ok)
            /\ Returned("report", IF ok THEN "nil" ELSE "err")
            /\ AfterReport(ok)
    /\ UNCHANGED <<store, calls, agent, cluster, command, flags, environ,
                   imageRef, accountID, packPath, markers, dockerfile,
                   warnings>>

-----------------------------------------------------------------------------

Next ==
    \/ DeployStart
    \/ BuildApplication
    \/ PackBuild
    \/ BuildWithDocker
    \/ PushStart
    \/ PushGetCallerIdentity
    \/ PushDockerTag
    \/ PushGetLoginPassword
    \/ PushDockerLogin
    \/ PushDescribeRepositories
    \/ PushCreateRepository
    \/ PushDockerPush
    \/ KnServiceApply
    \/ ConfigureECRPullPermissions
    \/ AttachDatabase
    \/ AttachRedis
    \/ CreateSecrets
    \/ Report

Spec == Init /\ [][Next]_vars

-----------------------------------------------------------------------------
(* The three commands that build, push or deploy, each started with a few  *)
(* flag settings: a smaller specification for what is claimed of one run.   *)

\* flow deploy without options and with every option
RunDeployFlags ==
    {f \in DeployFlags :
        /\ f.secrets # <<<<"KEY">>>>
        /\ (f.dbHost = <<>>) = (f.redisHost = <<>>)
        /\ (f.dbHost = <<>>) = (f.secrets = <<>>)
        /\ (f.dbHost = <<>>) = (f.serverURL = <<>>)}

\* flow build --image ..., and without the image
RunBuildFlags ==
    [dbHost : {<<>>}, redisHost : {<<>>}, secrets : {<<>>}, serverURL : {<<>>},
     image : {<<>>, EcrImageRef(<<"123456789012">>, <<"myapp">>)}]

InitRun ==
    /\ command \in {"deploy", "push", "build"}
    /\ flags \in (CASE command = "deploy" -> RunDeployFlags
                    [] command = "push" -> PushFlags
                    [] command = "build" -> RunBuildFlags)
    /\ environ = NotRead
    /\ pc = "start"
    /\ imageRef = <<>>
    /\ accountID = <<>>
    /\ packPath = "unset"
    /\ markers = {}
    /\ dockerfile = "none"
    /\ log = <<>>
    /\ ret = [f \in StageFunctions |-> "none"]
    /\ warnings = <<>>
    /\ result = "none"
    /\ err = <<>>
    /\ cluster = EmptyCluster
    /\ agent = NoAgent
    /\ Quiet

\* newBuildCmd's RunE: the image is required, then pack build is run and
\* its result returned; --app defaults to "."
BuildCmd ==
    /\ command = "build"
    /\ pc = "start"
    /\ IF flags.image = <<>>
       THEN /\ Return("err", <<"app and image are required">>)
            /\ UNCHANGED <<imageRef, log>>
       ELSE \E ok \in BOOLEAN :
            /\ imageRef' = flags.image
            /\ log' = Logged("newBuildCmd", "pack build", flags.image, ok)
            /\ IF ok THEN Return("nil", <<>>)
               ELSE Return("err", <<"exit status 1">>)
    /\ UNCHANGED <<store, calls, agent, cluster, command, flags, environ,
                   accountID, packPath, markers, dockerfile, ret, warnings>>

NextRun ==
    \/ Next
    \/ BuildCmd

SpecRun == InitRun /\ [][NextRun]_vars

\* the positions at which RunE waits in c.Run() for the build, the push or
\* the platform apply
WaitingForCommand ==
    \/ pc \in {"pack", "docker", "push_push", "deploy"}
    \/ command = "build" /\ pc = "start" /\ flags.image # <<>>

\* c.Run() on a command that never exits: exec.Command is given no context
\* and no timer, so RunE waits for good
CommandHangs ==
    /\ WaitingForCommand
    /\ pc' = "hung"
    /\ UNCHANGED <<store, calls, agent, cluster, command, flags, environ,
                   imageRef, accountID, packPath, markers, dockerfile, log,
                   ret, warnings, result, err>>

NextRunLive ==
    \/ NextRun
    \/ CommandHangs

\* a run that can take a step takes one: RunE is one thread of control
SpecRunLive == InitRun /\ [][NextRunLive]_vars /\ WF_vars(NextRunLive)

-----------------------------------------------------------------------------
(* Runs of the deployer against one cluster, one after another: the Deploy  *)
(* and Attach steps of the pipeline and the standalone attach-db,           *)
(* attach-redis and secrets commands (newAttachDBCmd, newAttachRedisCmd,    *)
(* newSecretsCmd). log holds the call of the latest run.                    *)

\* attach-db: name, host and db are required; then as attachDatabase
newAttachDBCmd(secrets, name, host, db, fate) ==
    IF name = <<>> \/ host = <<>> \/ db = <<>>
    THEN Refused(secrets, "name, host, db required")
    ELSE IF ~fate.client THEN Refused(secrets, "getClient failed")
    ELSE UpsertSecret(secrets,
                      Secret(SecretName(name, "-db"),
                             [DATABASE_URL |-> DatabaseURL(host, db)]),
                      fate)

\* attach-redis: name and host are required; then as attachRedis
newAttachRedisCmd(secrets, name, host, fate) ==
    IF name = <<>> \/ host = <<>>
    THEN Refused(secrets, "name and host required")
    ELSE IF ~fate.client THEN Refused(secrets, "getClient failed")
    ELSE UpsertSecret(secrets,
                      Secret(SecretName(name, "-redis"),
                             [REDIS_URL |-> RedisURL(host)]),
                      fate)

\* secrets: the Secret is named by --name itself
newSecretsCmd(secrets, name, pairs, fate) ==
    IF name = <<>> THEN Refused(secrets, "name required")
    ELSE IF ~fate.client THEN Refused(secrets, "getClient failed")
    ELSE IF \E i \in DOMAIN pairs : ~ValidPair(pairs[i])
    THEN Refused(secrets, "invalid pair")
    ELSE UpsertSecret(secrets, Secret(name, toEnvMap(pairs)), fate)

AppNames == {<<"myapp">>}

Hosts == {<<"db.internal">>, <<"db2.internal">>}

\* --name, --host and --db of attach-db: all given, or one of them missing
AttachDBFlags ==
    [name : AppNames, host : Hosts, db : {<<"appdb">>}]
        \cup {[name |-> <<>>, host |-> <<"db.internal">>, db |-> <<"appdb">>],
              [name |-> <<"myapp">>, host |-> <<>>, db |-> <<"appdb">>],
              [name |-> <<"myapp">>, host |-> <<"db.internal">>, db |-> <<>>]}

\* --name and --host of attach-redis
RedisHosts == {<<"redis.internal">>}

AttachRedisFlags ==
    [name : AppNames, host : RedisHosts]
        \cup {[name |-> <<>>, host |-> <<"redis.internal">>],
              [name |-> <<"myapp">>, host |-> <<>>]}

PairLists ==
    (SecretLists \ {<<>>})
        \cup {<<<<"KEY", "=", "other">>>>,
              <<<<"KEY", "=", "value">>, <<"BAD">>>>}

\* --name and --from-literal of secrets
SecretsFlags ==
    [name : AppNames, pairs : PairLists]
        \cup {[name |-> <<>>, pairs |-> <<<<"KEY", "=", "value">>>>]}

EnvLists == {<<<<"A", "=", "1">>, <<"B", "=", "2">>, <<"C">>>>}

ServiceInputs ==
    [name : AppNames,
     image : {EcrImageRef(<<"123456789012">>, <<"myapp">>),
              LocalImageRef(<<"myapp">>)},
     ns : {DefaultNamespace},
     cpu : {DefaultCpu},
     mem : {DefaultMem},
     envs : EnvLists,
     port : {DefaultPort}]

NoFlags ==
    [dbHost |-> <<>>, redisHost |-> <<>>, secrets |-> <<>>,
     serverURL |-> <<>>, image |-> <<>>]

\* the pipeline's own state before any command has run
NoPipeline ==
    /\ command = "none"
    /\ flags = NoFlags
    /\ environ = NotRead
    /\ pc = "start"
    /\ imageRef = <<>>
    /\ accountID = <<>>
    /\ packPath = "unset"
    /\ markers = {}
    /\ dockerfile = "none"
    /\ log = <<>>
    /\ ret = [f \in StageFunctions |-> "none"]
    /\ warnings = <<>>
    /\ result = "none"
    /\ err = <<>>

\* no command has run yet
NoRun == Quiet /\ NoPipeline

InitCluster ==
    /\ NoRun
    /\ cluster = EmptyCluster
    /\ agent = NoAgent

\* a run of cmd made the call fn, which came to a
Ran(cmd, fn, op, in, a, healthy, ok) ==
    /\ command' = cmd
    /\ log' = <<[fn |-> fn, op |-> op, arg |-> Call(in, a, healthy),
                 ok |-> ok]>>
    /\ UNCHANGED <<store, calls, agent, flags, environ, pc, imageRef,
                   accountID, packPath, markers, dockerfile, ret, warnings,
                   result, err>>

AttachRan(cmd, fn, name, value, a, fate) ==
    /\ cluster' = [cluster EXCEPT !.secrets = a.secrets]
    /\ Ran(cmd, fn, "apply secret", [name |-> name, value |-> value], a,
           fate = Healthy, Applied(a.out))

\* deploy, Step 3
DeployApplies ==
    \E in \in ServiceInputs, up \in BOOLEAN :
        LET a == ApplyService(cluster.services, in, up)
        IN /\ cluster' = [cluster EXCEPT !.services = a.services]
           /\ Ran("deploy", "knServiceApply", "kubectl apply", in, a, up,
                  ServiceApplied(a))

\* deploy --db-host, Step 4
DeployAttachesDatabase ==
    \E name \in AppNames, host \in Hosts, fate \in Fates :
        AttachRan("deploy", "attachDatabase", name, host,
                  attachDatabase(cluster.secrets, name, host, <<"appdb">>,
                                 fate),
                  fate)

\* deploy --redis-host, Step 5
DeployAttachesRedis ==
    \E name \in AppNames, host \in RedisHosts, fate \in Fates :
        AttachRan("deploy", "attachRedis", name, host,
                  attachRedis(cluster.secrets, name, host, fate), fate)

\* deploy --secret, Step 6
DeployCreatesSecrets ==
    \E name \in AppNames, pairs \in PairLists, fate \in Fates :
        AttachRan("deploy", "createSecrets", name, pairs,
                  createSecrets(cluster.secrets, name, pairs, fate), fate)

AttachDBCmd ==
    \E f \in AttachDBFlags, fate \in Fates :
        AttachRan("attach-db", "newAttachDBCmd", f.name, f.host,
                  newAttachDBCmd(cluster.secrets, f.name, f.host, f.db, fate),
                  fate)

AttachRedisCmd ==
    \E f \in AttachRedisFlags, fate \in Fates :
        AttachRan("attach-redis", "newAttachRedisCmd", f.name, f.host,
                  newAttachRedisCmd(cluster.secrets, f.name, f.host, fate),
                  fate)

SecretsCmd ==
    \E f \in SecretsFlags, fate \in Fates :
        AttachRan("secrets", "newSecretsCmd", f.name, f.pairs,
                  newSecretsCmd(cluster.secrets, f.name, f.pairs, fate), fate)

NextCluster ==
    \/ DeployApplies
    \/ DeployAttachesDatabase
    \/ DeployAttachesRedis
    \/ DeployCreatesSecrets
    \/ AttachDBCmd
    \/ AttachRedisCmd
    \/ SecretsCmd

SpecCluster == InitCluster /\ [][NextCluster]_vars

-----------------------------------------------------------------------------
(* Attachments of one credential running at the same time: two processes    *)
(* (a deploy with --db-host, an attach-db), each with its own client, on one *)
(* cluster. calls holds each one's Secret, its position and what its Get    *)
(* and its Update or Create came to.                                         *)

MaxAttachers == 2

\* an attachment of the database credential of myapp that has built its
\* Secret and is about to call Get
Attachments ==
    {[fn |-> f,
      sec |-> Secret(SecretName(<<"myapp">>, "-db"),
                     [DATABASE_URL |-> DatabaseURL(h, <<"appdb">>)]),
      pc |-> "get", found |-> FALSE, out |-> "none"] :
        f \in {"attachDatabase", "newAttachDBCmd"}, h \in Hosts}

InitRace ==
    /\ NoPipeline
    /\ store = <<>>
    /\ agent = NoAgent
    /\ \E before \in SUBSET {a.sec : a \in Attachments} :
        /\ Cardinality(before) <= 1
        /\ cluster = [EmptyCluster EXCEPT !.secrets = before]
    /\ calls \in [1..MaxAttachers -> Attachments]

\* line 567: Secrets(ns).Get, err == nil when the Secret is there
AttachGets ==
    \E i \in DOMAIN calls :
        /\ calls[i].pc = "get"
        /\ calls' = [calls EXCEPT
                        ![i].found = SecretsGet(cluster.secrets,
                                                calls[i].sec.name, TRUE),
                        ![i].pc = "write"]
        /\ UNCHANGED <<store, agent, cluster, command, flags, environ, pc,
                       imageRef, accountID, packPath, markers, dockerfile,
                       log, ret, warnings, result, err>>

\* lines 568-573: Update when the Get found the Secret, else Create; the
\* error of either is returned
AttachWrites ==
    \E i \in DOMAIN calls :
        /\ calls[i].pc = "write"
        /\ LET a == IF calls[i].found
                    THEN SecretsUpdate(cluster.secrets, calls[i].sec, TRUE)
                    ELSE SecretsCreate(cluster.secrets, calls[i].sec, TRUE)
           IN /\ cluster' = [cluster EXCEPT !.secrets = a.secrets]
              /\ calls' = [calls EXCEPT ![i].out = a.out, ![i].pc = "done"]
        /\ UNCHANGED <<store, agent, command, flags, environ, pc, imageRef,
                       accountID, packPath, markers, dockerfile, log, ret,
                       warnings, result, err>>

NextRace ==
    \/ AttachGets
    \/ AttachWrites

SpecRace == InitRace /\ [][NextRace]_vars

-----------------------------------------------------------------------------
(* The tracking server: POST /deployments and GET /deployments, each        *)
(* request served by a goroutine of its own. store is Store.deployments, a  *)
(* map from id to Deployment; calls holds the requests in order of arrival, *)
(* each with its handler's position. A Deployment is reduced to its id and  *)
(* its status. For the claims a request also records which requests had     *)
(* been answered when it arrived (before) and its turn in the order in      *)
(* which the handlers held Store.mu (tick, 0 before that).                  *)

MaxRequests == 3

Deployment(id, status) == [id |-> id, status |-> status]

\* var d Deployment
ZeroDeployment == Deployment("", "")

\* the bodies clients post: the deployer's report with its id, a record
\* without id, and that id again with another status
PostBodies ==
    {Deployment("myapp:1", "deployed"), Deployment("myapp:1", "failed"),
     Deployment("", "deployed")}

\* a request as it arrives; valid: the body is the JSON of a Deployment
Requests ==
    {[kind |-> "GET", valid |-> TRUE, body |-> ZeroDeployment]}
        \cup {[kind |-> "POST", valid |-> TRUE, body |-> b] : b \in PostBodies}
        \cup {[kind |-> "POST", valid |-> FALSE, body |-> ZeroDeployment]}

\* uuid.NewString(): an id that no record and no request has had; the n-th
\* one generated
NewString(n) == "uuid-" \o ToString(n)

\* the ids generated so far
Generated(cs) ==
    Cardinality({i \in DOMAIN cs : cs[i].d.id \notin {"", "myapp:1"}})

NoResponse == [code |-> 0, list |-> {}]

\* main(): an empty store, nothing served yet
InitServer ==
    /\ NoRun
    /\ cluster = EmptyCluster
    /\ agent = NoAgent

ServerOnly ==
    UNCHANGED <<agent, cluster, command, flags, environ, pc, imageRef,
                accountID, packPath, markers, dockerfile, log, ret, warnings,
                result, err>>

\* the next turn at Store.mu
NextTick(cs) ==
    1 + Cardinality({i \in DOMAIN cs : cs[i].tick > 0})

\* the router starts a handler for a request
Request ==
    /\ Len(calls) < MaxRequests
    /\ \E r \in Requests :
        calls' = Append(calls,
                        [kind |-> r.kind, valid |-> r.valid, body |-> r.body,
                         d |-> ZeroDeployment, pc |-> "start", tick |-> 0,
                         resp |-> NoResponse,
                         before |-> {j \in DOMAIN calls :
                                        calls[j].pc = "done"}])
    /\ UNCHANGED store
    /\ ServerOnly

\* POST, lines 35-36: decode the body (400 when it fails), give a record
\* without id a new one
PostDecode ==
    /\ \E i \in DOMAIN calls :
        /\ calls[i].kind = "POST"
        /\ calls[i].pc = "start"
        /\ calls' =
             IF ~calls[i].valid
             THEN [calls EXCEPT ![i].pc = "done",
                                ![i].resp = [code |-> 400, list |-> {}]]
             ELSE [calls EXCEPT
                     ![i].pc = "lock",
                     ![i].d = IF calls[i].body.id = ""
                              THEN [calls[i].body EXCEPT
                                      !.id = NewString(1 + Generated(calls))]
                              ELSE calls[i].body]
    /\ UNCHANGED store
    /\ ServerOnly

\* faulty variant of PostStore: a record whose id is in the map is not
\* stored
PostStore_KeepsFirst ==
    /\ \E i \in DOMAIN calls :
        /\ calls[i].kind = "POST"
        /\ calls[i].pc = "lock"
        /\ store' = IF calls[i].d.id \in DOMAIN store THEN store
                    ELSE (calls[i].d.id :> calls[i].d) @@ store
        /\ calls' = [calls EXCEPT ![i].pc = "respond",
                                  ![i].tick = NextTick(calls)]
    /\ ServerOnly

\* POST, line 37: store.deployments[d.ID] = d between Lock and Unlock
PostStore ==
    /\ \E i \in DOMAIN calls :
        /\ calls[i].kind = "POST"
        /\ calls[i].pc = "lock"
        /\ store' = (calls[i].d.id :> calls[i].d) @@ store
        /\ calls' = [calls EXCEPT ![i].pc = "respond",
                                  ![i].tick = NextTick(calls)]
    /\ ServerOnly

\* GET, lines 42-44: copy every record between RLock and RUnlock; the order
\* of the list is the map's iteration order, which carries no meaning
GetCopy ==
    /\ \E i \in DOMAIN calls :
        /\ calls[i].kind = "GET"
        /\ calls[i].pc = "start"
        /\ calls' = [calls EXCEPT
                       ![i].pc = "respond",
                       ![i].tick = NextTick(calls),
                       ![i].resp = [code |-> 0,
                                    list |-> {store[k] : k \in DOMAIN store}]]
    /\ UNCHANGED store
    /\ ServerOnly

\* lines 38-39, 45-46: encode d, or the list, as the response
Respond ==
    /\ \E i \in DOMAIN calls :
        /\ calls[i].pc = "respond"
        /\ calls' = [calls EXCEPT
                       ![i].pc = "done",
                       ![i].resp = [code |-> 200,
                                    list |-> IF calls[i].kind = "POST"
                                             THEN {calls[i].d}
                                             ELSE calls[i].resp.list]]
    /\ UNCHANGED store
    /\ ServerOnly

NextServer ==
    \/ Request
    \/ PostDecode
    \/ PostStore
    \/ GetCopy
    \/ Respond

SpecServer == InitServer /\ [][NextServer]_vars

-----------------------------------------------------------------------------
(* The AIAgent's error classifier. The agent's implementation is not among  *)
(* the sources; it is modelled from the specification (4.6, 4.8), from the  *)
(* lines and pattern names of its tests, and from the declared type of the  *)
(* pattern container. A log line is a sequence of phrases.                  *)

\* the patterns NewAIAgent registers, in the order of registration
Registered ==
    <<"buildpack_failure", "ecr_auth_failed", "repository_not_found",
      "revision_missing", "image_pull_backoff", "dns_resolution_failed",
      "permission_denied", "loadbalancer_pending">>

\* the phrases the pattern of each category matches
TriggerPhrases ==
    [buildpack_failure |-> {"failed to build", "failed to fetch base layers"},
     ecr_auth_failed |-> {"authentication failed", "unauthorized"},
     repository_not_found |-> {"repository not found", "no such repository"},
     revision_missing |-> {"revision missing", "revision not found"},
     image_pull_backoff |-> {"imagepullbackoff", "failed to pull image"},
     dns_resolution_failed |-> {"could not resolve host", "dns failed"},
     permission_denied |-> {"permission denied", "access denied"},
     loadbalancer_pending |-> {"loadbalancer pending", "external pending"}]

\* TestAIAgent's table of log lines and the pattern each must be given
testCases ==
    {[logLine |-> <<"ERROR:", "failed to build", "failed to fetch base layers">>,
      expected |-> "buildpack_failure"],
     [logLine |-> <<"authentication failed", "unauthorized">>,
      expected |-> "ecr_auth_failed"],
     [logLine |-> <<"repository not found", "no such repository">>,
      expected |-> "repository_not_found"],
     [logLine |-> <<"revision missing", "revision not found">>,
      expected |-> "revision_missing"],
     [logLine |-> <<"imagepullbackoff", "failed to pull image">>,
      expected |-> "image_pull_backoff"],
     [logLine |-> <<"could not resolve host", "dns failed">>,
      expected |-> "dns_resolution_failed"],
     [logLine |-> <<"permission denied", "access denied">>,
      expected |-> "permission_denied"],
     [logLine |-> <<"loadbalancer pending", "external pending">>,
      expected |-> "loadbalancer_pending"]}

\* TestErrorPatternMatching's lines that must not be given a pattern
negativeCases ==
    {<<"Building application successfully">>,
     <<"Deploy completed without errors">>,
     <<"All checks passed">>,
     <<"Service is running normally">>}

\* strings.ToLower of a phrase
LowerOf(t) ==
    CASE t = "ERROR:" -> "error:"
      [] t = "Building application successfully" ->
            "building application successfully"
      [] t = "Deploy completed without errors" ->
            "deploy completed without errors"
      [] t = "All checks passed" -> "all checks passed"
      [] t = "Service is running normally" -> "service is running normally"
      [] t = "IMAGEPULLBACKOFF" -> "imagepullbackoff"
      [] t = "Starting build..." -> "starting build..."
      [] OTHER -> t

\* faulty variant of ToLower: the line is matched as it is
ToLower_Identity(line) == line

\* the lowercase-normalized line
ToLower(line) == [i \in DOMAIN line |-> LowerOf(line[i])]

\* whether the pattern of a category matches a normalized line
Matches(name, lowered) ==
    \E ph \in TriggerPhrases[name] : Contains(lowered, <<ph>>)

\* the orders in which a range over the pattern map can visit it: the Go
\* runtime starts at an entry of its choice and wraps around
MapRange(m) ==
    {[i \in DOMAIN m |-> m[((i + k - 1) % Len(m)) + 1]] : k \in 0..(Len(m) - 1)}

\* the last line of the rolling buffer, if any
LastLog(a) == IF a.logs = <<>> THEN <<>> ELSE a.logs[Len(a.logs)]

\* faulty variant of detectError: the line is matched together with the
\* line buffered before it
detectError_MultiLine(a, line, order) ==
    LET lowered == ToLower(LastLog(a) \o line)
        hits == {i \in DOMAIN order : Matches(order[i], lowered)}
    IN IF hits = {} THEN "nil"
       ELSE order[CHOOSE i \in hits : \A j \in hits : i <= j]

\* agent.detectError(line): the first pattern, in the order the patterns are
\* visited, that matches the normalized line; "nil" when none does
detectError(a, line, order) ==
    LET lowered == ToLower(line)
        hits == {i \in DOMAIN order : Matches(order[i], lowered)}
    IN IF hits = {} THEN "nil"
       ELSE order[CHOOSE i \in hits : \A j \in hits : i <= j]

\* what a call of agent.detectError(line) can return
Detected(a, line) ==
    {detectError(a, line, order) : order \in MapRange(a.errorPatterns)}

\* longest line classified
MaxLineLen == 2

\* capacity of the rolling log buffer
LogCapacity == 2

Phrases ==
    {"failed to fetch base layers", "authentication failed", "unauthorized",
     "repository not found", "revision missing", "imagepullbackoff",
     "IMAGEPULLBACKOFF", "could not resolve host", "permission denied",
     "loadbalancer pending", "build successful"}

Lines ==
    UNION {[1..n -> Phrases] : n \in 0..MaxLineLen}
        \cup {tc.logLine : tc \in testCases} \cup negativeCases

\* lines a monitored process prints
MonitoredLines == {<<"ERROR:", "revision missing">>}

\* NewAIAgent(): the patterns are registered and the agent monitors; line
\* is the argument of the detectError call to come
InitAgent ==
    /\ NoRun
    /\ cluster = EmptyCluster
    /\ \E l \in Lines :
        agent = [status |-> "monitoring", errorPatterns |-> Registered,
                 logs |-> <<>>, line |-> l, match |-> "unset",
                 again |-> "unset"]

AgentOnly ==
    UNCHANGED <<command, pc, flags, environ, imageRef, accountID, packPath,
                markers, dockerfile, log, ret, warnings, result, err, cluster,
                store, calls>>


-----------------------------------------------------------------------------
(* The AIAgent's fix selector. Its implementation is not among the sources *)
(* either; it is modelled from the specification (4.7) and from the calls   *)
(* and expectations of its tests. A confidence is written in hundredths:    *)
(* 90 stands for the Go value 0.9.                                          *)

\* a FixStrategy value
FixStrategy(name, confidence) == [Name |-> name, Confidence |-> confidence]

\* the nil *FixStrategy
NoFix == FixStrategy("nil", 0)

\* the nil *DeploymentError
NilError == [Pattern |-> "nil", Suggestions |-> <<>>]

\* a DeploymentError value
DeploymentError(pattern, suggestions) ==
    [Pattern |-> pattern, Suggestions |-> suggestions]

\* faulty variant of fixStrategies: a remedy registered with a confidence
\* beyond 1
fixStrategies_BeyondOne ==
    [name \in {Registered[i] : i \in DOMAIN Registered} |->
        <<FixStrategy("docker_fallback", 150)>>]

\* agent.fixStrategies as NewAIAgent fills it: the remedies registered for
\* each category, in the order of registration. The tests fix that
\* docker_fallback is the best remedy of a buildpack failure, with a
\* confidence of at least 0.8; the other entries stand for the remedies of
\* the other categories
fixStrategies ==
    [name \in {Registered[i] : i \in DOMAIN Registered} |->
        CASE name = "buildpack_failure" ->
                <<FixStrategy("clear_cache", 60),
                  FixStrategy("docker_fallback", 90)>>
          [] name = "ecr_auth_failed" ->
                <<FixStrategy("ecr_login", 90)>>
          [] name = "loadbalancer_pending" ->
                <<FixStrategy("wait_for_loadbalancer", 40)>>
          [] OTHER ->
                <<FixStrategy("retry", 70), FixStrategy("manual_check", 30)>>]

\* faulty variant of Ranked: among equal confidences the later candidate
\* comes first
Ranked_LaterFirst(s) ==
    LET before(i, j) ==
            \/ s[i].Confidence > s[j].Confidence
            \/ s[i].Confidence = s[j].Confidence /\ i > j
        place(i) == 1 + Cardinality({j \in DOMAIN s : before(j, i)})
    IN [k \in DOMAIN s |-> s[CHOOSE i \in DOMAIN s : place(i) = k]]

\* the candidates ranked by descending confidence, candidates of equal
\* confidence staying in the order of registration (a stable sort)
Ranked(s) ==
    LET before(i, j) ==
            \/ s[i].Confidence > s[j].Confidence
            \/ s[i].Confidence = s[j].Confidence /\ i < j
        place(i) == 1 + Cardinality({j \in DOMAIN s : before(j, i)})
    IN [k \in DOMAIN s |-> s[CHOOSE i \in DOMAIN s : place(i) = k]]

\* the confidence below which the selector may ask for external analysis
DefaultThreshold == 50

\* what an external analysis call comes to: it is not made, it fails, it
\* times out, or it answers with a fix
ExternalCall(outcome, fix) == [outcome |-> outcome, fix |-> fix]

\* faulty variant of localBest: a remedy is made up for an error without
\* candidates
localBest_Default(e) ==
    IF e = NilError \/ e.Suggestions = <<>>
    THEN FixStrategy("manual_check", 30)
    ELSE Ranked(e.Suggestions)[1]

\* faulty variant of localBest: the candidate registered first is taken
localBest_First(e) ==
    IF e = NilError \/ e.Suggestions = <<>> THEN NoFix
    ELSE e.Suggestions[1]

\* the top entry of the ranking, none for a nil error or an empty list
localBest(e) ==
    IF e = NilError \/ e.Suggestions = <<>> THEN NoFix
    ELSE Ranked(e.Suggestions)[1]

\* faulty variant of Escalates: a configured external analysis is asked
\* whatever the local confidence
Escalates_Always(a, e) ==
    /\ localBest(e) # NoFix
    /\ a.external

\* whether the selector may escalate: the best local candidate is below the
\* threshold and an external analysis capability is configured
Escalates(a, e) ==
    /\ localBest(e) # NoFix
    /\ localBest(e).Confidence < a.threshold
    /\ a.external

\* agent.selectBestFix(error), call being what the external analysis came
\* to: its fix when it was asked and answered, the local best otherwise.
\* The error is handed back as the selector leaves it
selectBestFix(a, e, call) ==
    [fix |-> IF call.outcome = "ok" THEN call.fix ELSE localBest(e),
     error |-> e]

\* longest candidate list given to the selector
MaxCandidates == 3

\* candidates the selector is given
Candidates ==
    {FixStrategy("clear_cache", 30), FixStrategy("docker_fallback", 90),
     FixStrategy("retry", 60), FixStrategy("ecr_login", 90),
     FixStrategy("manual_check", 30)}

\* fixes an external analysis returns
ExternalFixes == {FixStrategy("ai_fix", 20), FixStrategy("ai_fix", 95)}

\* errors the selector is called with: nil, TestErrorHandling's error
\* without suggestions, TestFixStrategies' error and candidate lists
DeploymentErrors ==
    {NilError}
        \cup {DeploymentError(name, fixStrategies[name]) :
                name \in DOMAIN fixStrategies}
        \cup {DeploymentError("unknown_error", s) :
                s \in UNION {[1..n -> Candidates] : n \in 0..MaxCandidates}}

\* NewAIAgent(), with or without an external analysis capability, and the
\* error of the selectBestFix call to come
InitFix ==
    /\ NoRun
    /\ cluster = EmptyCluster
    /\ \E e \in DeploymentErrors, ext \in BOOLEAN :
        agent = [status |-> "monitoring", fixStrategies |-> fixStrategies,
                 external |-> ext, threshold |-> DefaultThreshold,
                 given |-> e, error |-> e, selected |-> FALSE,
                 call |-> ExternalCall("not called", NoFix), bestFix |-> NoFix]

\* a call of agent.selectBestFix(error), with the external analysis it may
\* make
SelectBestFix ==
    /\ ~agent.selected
    /\ \E call \in {ExternalCall("not called", NoFix)}
            \cup (IF Escalates(agent, agent.error)
                  THEN {ExternalCall("failed", NoFix),
                        ExternalCall("timeout", NoFix)}
                        \cup {ExternalCall("ok", f) : f \in ExternalFixes}
                  ELSE {}) :
        LET r == selectBestFix(agent, agent.error, call)
        IN agent' = [agent EXCEPT !.selected = TRUE, !.call = call,
                                  !.bestFix = r.fix, !.error = r.error]
    /\ AgentOnly

NextFix == SelectBestFix

SpecFix == InitFix /\ [][NextFix]_vars

-----------------------------------------------------------------------------
(* the agent's calls, one log line or one error at a time *)

\* faulty variant of pushLog: a full buffer refuses the new line
pushLog_KeepsOldest(logs, l) ==
    IF Len(logs) >= LogCapacity THEN logs ELSE Append(logs, l)

\* a line goes to the rolling buffer, the oldest line leaving when the
\* buffer is over its capacity
pushLog(logs, l) ==
    LET all == Append(logs, l)
    IN IF Len(all) > LogCapacity THEN Tail(all) ELSE all

\* the fix the monitor has for a classified line
fixFor(a, found) ==
    selectBestFix(a, DeploymentError(found, fixStrategies[found]),
                  ExternalCall("not called", NoFix)).fix

\* faulty variant of statusAfter: the outcome of the fix is never told
statusAfter_StaysDetected(fix, applied) == "error_detected"

\* the status the monitor leaves after a classified line: the fix was
\* applied or it failed; without a fix the error stays detected
statusAfter(fix, applied) ==
    IF fix = NoFix THEN "error_detected"
    ELSE IF applied THEN "fix_applied" ELSE "fix_failed"

\* faulty variant of MonitorLogs: a detected error ends the observed run
MonitorLogs_Halts ==
    /\ \E l \in MonitoredLines :
        \E found \in Detected(agent, l) :
        /\ agent' = [agent EXCEPT !.logs = pushLog(@, l),
                                  !.status = IF found # "nil"
                                             THEN "error_detected" ELSE @]
        /\ pc' = IF found # "nil" THEN "done" ELSE pc
        /\ result' = IF found # "nil" /\ pc # "done" THEN "err" ELSE result
    /\ UNCHANGED <<command, flags, environ, imageRef, accountID, packPath,
                   markers, dockerfile, log, ret, warnings, err, cluster,
                   store, calls>>

\* MonitorLogs reads one line: it goes to the rolling buffer and is
\* classified; for a detected error the fix is selected and applied, and
\* the status tells how that went
MonitorLogs ==
    /\ \E l \in MonitoredLines :
        \E found \in Detected(agent, l), applied \in BOOLEAN :
        agent' = [agent EXCEPT
                    !.logs = pushLog(@, l),
                    !.status = IF found # "nil"
                               THEN statusAfter(fixFor(agent, found), applied)
                               ELSE @]
    /\ AgentOnly

\* a call of agent.detectError(line)
DetectError ==
    /\ agent.match = "unset"
    /\ \E found \in Detected(agent, agent.line) :
        agent' = [agent EXCEPT !.match = found]
    /\ AgentOnly

\* a second call of agent.detectError with the same line
DetectAgain ==
    /\ agent.match # "unset"
    /\ agent.again = "unset"
    /\ \E found \in Detected(agent, agent.line) :
        agent' = [agent EXCEPT !.again = found]
    /\ AgentOnly

NextAgent ==
    \/ MonitorLogs
    \/ DetectError
    \/ DetectAgain

SpecAgent == InitAgent /\ [][NextAgent]_vars

-----------------------------------------------------------------------------
(* The log monitor as a line of control of its own, next to a caller that  *)
(* asks for the status or the logs (specification 4.8 and 5). The monitor   *)
(* holds the agent's mutex over the update one line brings; GetStatus and   *)
(* ExportLogs hold it while they copy.                                      *)

\* longest stream the monitor is given
MaxStream == 3

\* lines of TestLogMonitoring's stream: one without and one with an error
StreamLines ==
    {<<"Starting build...">>,
     <<"ERROR:", "failed to build", "failed to fetch base layers">>}

Streams == UNION {[1..n -> StreamLines] : n \in 0..MaxStream}

\* what GetStatus and ExportLogs copy
Snapshot(a) == [status |-> a.status, logs |-> a.logs]

\* faulty variant of MayLock: the mutex is not looked at
MayLock_Always(a) == TRUE

\* whether mu.Lock() returns: nobody holds the mutex
MayLock(a) == a.mu = "free"

\* NewAIAgent() and the stream of the MonitorLogs call to come; input keeps
\* the stream as it was given, pushed the lines taken from it, commits the
\* status and buffer after each line's update
InitMonitor ==
    /\ NoRun
    /\ cluster = EmptyCluster
    /\ \E s \in Streams :
        agent = [status |-> "monitoring", errorPatterns |-> Registered,
                 logs |-> <<>>, input |-> s, stream |-> s, pushed |-> <<>>,
                 mu |-> "free", mpc |-> "scan", cur |-> <<>>,
                 found |-> "nil", cpc |-> "idle",
                 seen |-> [status |-> "none", logs |-> <<>>],
                 commits |-> <<[status |-> "monitoring", logs |-> <<>>]>>]

\* the monitor reads the next line of the stream and takes the mutex
MonitorScan ==
    /\ agent.mpc = "scan"
    /\ agent.stream # <<>>
    /\ MayLock(agent)
    /\ agent' = [agent EXCEPT !.cur = Head(agent.stream),
                              !.stream = Tail(agent.stream),
                              !.mu = "monitor", !.mpc = "append"]
    /\ AgentOnly

\* the line goes to the rolling buffer
MonitorAppend ==
    /\ agent.mpc = "append"
    /\ agent' = [agent EXCEPT !.logs = pushLog(@, agent.cur),
                              !.pushed = Append(@, agent.cur),
                              !.mpc = "classify"]
    /\ AgentOnly

\* the line is classified; a match makes the status error_detected
MonitorClassify ==
    /\ agent.mpc = "classify"
    /\ \E found \in Detected(agent, agent.cur) :
        agent' = [agent EXCEPT
                    !.found = found,
                    !.status = IF found # "nil" THEN "error_detected" ELSE @,
                    !.mpc = IF found # "nil" THEN "fix" ELSE "unlock"]
    /\ AgentOnly

\* the fix of the detected error is selected and applied
MonitorFix ==
    /\ agent.mpc = "fix"
    /\ \E applied \in BOOLEAN :
        agent' = [agent EXCEPT
                    !.status = statusAfter(fixFor(agent, agent.found), applied),
                    !.mpc = "unlock"]
    /\ AgentOnly

\* the line's update is complete: the monitor gives the mutex back
MonitorUnlock ==
    /\ agent.mpc = "unlock"
    /\ agent' = [agent EXCEPT !.mu = "free", !.mpc = "scan",
                              !.commits = Append(@, Snapshot(agent))]
    /\ AgentOnly

\* a caller enters GetStatus or ExportLogs and takes the mutex
GetStatusLock ==
    /\ agent.cpc = "idle"
    /\ MayLock(agent)
    /\ agent' = [agent EXCEPT !.mu = "caller", !.cpc = "copying"]
    /\ AgentOnly

\* the caller copies status and buffer, gives the mutex back and returns
GetStatus ==
    /\ agent.cpc = "copying"
    /\ agent' = [agent EXCEPT !.seen = Snapshot(agent), !.mu = "free",
                              !.cpc = "idle"]
    /\ AgentOnly

MonitorStep ==
    \/ MonitorAppend
    \/ MonitorClassify
    \/ MonitorFix
    \/ MonitorUnlock

NextMonitor ==
    \/ MonitorScan
    \/ MonitorStep
    \/ GetStatusLock
    \/ GetStatus

SpecMonitor == InitMonitor /\ [][NextMonitor]_vars

\* the monitor's line of control keeps running, the mutex lets no waiter
\* starve, and a caller that entered GetStatus returns
SpecMonitorLive ==
    /\ SpecMonitor
    /\ SF_vars(MonitorScan)
    /\ WF_vars(MonitorStep)
    /\ WF_vars(GetStatus)

-----------------------------------------------------------------------------
(* A deploy run observed by the log monitor: the run's steps and the       *)
(* monitor's reading of its output interleave freely.                       *)

\* flow deploy --db-host db.internal
ObservedFlags ==
    [dbHost |-> <<"db.internal">>, redisHost |-> <<>>, secrets |-> <<>>,
     serverURL |-> <<>>, image |-> <<>>]

\* the variables of the observed run
pipeline ==
    <<command, pc, flags, environ, imageRef, accountID, packPath, markers,
      dockerfile, log, ret, warnings, result, err, cluster>>

\* the run is about to start and NewAIAgent() was given its output
InitObserved ==
    /\ Quiet
    /\ command = "deploy"
    /\ flags = ObservedFlags
    /\ environ = NotRead
    /\ pc = "start"
    /\ imageRef = <<>>
    /\ accountID = <<>>
    /\ packPath = "unset"
    /\ markers = {}
    /\ dockerfile = "none"
    /\ log = <<>>
    /\ ret = [f \in StageFunctions |-> "none"]
    /\ warnings = <<>>
    /\ result = "none"
    /\ err = <<>>
    /\ cluster = EmptyCluster
    /\ agent = [status |-> "monitoring", errorPatterns |-> Registered,
                logs |-> <<>>]

\* a step of the deploy run
DeployStep ==
    \/ DeployStart
    \/ BuildApplication
    \/ PackBuild
    \/ BuildWithDocker
    \/ PushGetCallerIdentity
    \/ PushDockerTag
    \/ PushGetLoginPassword
    \/ PushDockerLogin
    \/ PushDescribeRepositories
    \/ PushCreateRepository
    \/ PushDockerPush
    \/ KnServiceApply
    \/ ConfigureECRPullPermissions
    \/ AttachDatabase
    \/ AttachRedis
    \/ CreateSecrets
    \/ Report

NextObserved ==
    \/ DeployStep
    \/ MonitorLogs

SpecObserved == InitObserved /\ [][NextObserved]_vars

-----------------------------------------------------------------------------

\* the status of the pipeline run at a position of deploy's RunE
Stage(p, r) ==
    CASE p = "start" -> "pending"
      [] p \in {"build", "pack", "docker"} -> "building"
      [] p \in {"push", "push_tag", "push_auth", "push_login", "push_check",
                "push_create", "push_push"} -> "pushing"
      [] p \in {"deploy", "ecr_perm"} -> "deploying"
      [] p \in {"attach_db", "attach_redis", "attach_secrets"} -> "attaching"
      [] p = "report" -> "reporting"
      [] p = "done" -> IF r = "nil" THEN "succeeded" ELSE "failed"

TypeOK ==
    /\ command \in {"deploy", "push"}
    /\ result \in {"none", "nil", "err", "panic"}
    /\ (pc = "done") <=> (result # "none")
    /\ (result = "nil") => (err = <<>>)

-----------------------------------------------------------------------------
(* Properties of the deploy pipeline *)

BuildFns == {"buildApplication", "buildWithDocker"}

AttachFns == {"attachDatabase", "attachRedis", "createSecrets"}

\* the attachments the flags ask for
Requested ==
    {f \in AttachFns :
        \/ f = "attachDatabase" /\ flags.dbHost # <<>>
        \/ f = "attachRedis" /\ flags.redisHost # <<>>
        \/ f = "createSecrets" /\ Len(flags.secrets) > 0}

\* the functions that issue commands in a stage later than Build / Push
AfterBuildFns ==
    {PushFn, "knServiceApply", "configureECRPullPermissions", "report"}
        \cup AttachFns

AfterPushFns == AfterBuildFns \ {PushFn}

Entries(fns) == {i \in DOMAIN log : log[i].fn \in fns}

OpEntries(op) == {i \in DOMAIN log : log[i].op = op}

Terminal(s) == s \in {"succeeded", "failed"}

\* the stage that follows s when s succeeds
NextStage(s) ==
    CASE s = "pending" -> "building"
      [] s = "building" -> "pushing"
      [] s = "pushing" -> "deploying"
      [] s = "deploying" -> "attaching"
      [] s = "attaching" -> "reporting"
      [] s = "reporting" -> "succeeded"
      [] OTHER -> "none"

\* stage s has returned success, as recorded in r
StageSucceeded(s, r) ==
    CASE s = "pending" -> r["generateImageRef"] = "nil"
      [] s = "building" -> r["buildApplication"] = "nil"
      [] s = "pushing" -> r[PushFn] = "nil"
      [] s = "deploying" ->
            r["knServiceApply"] = "nil" /\ r["configureECRPullPermissions"] # "none"
      [] s = "attaching" -> \A f \in Requested : r[f] = "nil"
      [] s = "reporting" -> flags.serverURL # <<>> => r["report"] # "none"
      [] OTHER -> FALSE

StageStep ==
    LET s == Stage(pc, result)
        t == Stage(pc', result')
    IN command = "deploy" =>
        /\ Terminal(s) => UNCHANGED vars
        /\ s # t => \/ t = "failed"
                    \/ t = NextStage(s) /\ StageSucceeded(s, ret')

\* C1: in a run of the deploy pipeline every step stays in its stage, moves
\* to the next stage of Build, Push, Deploy, Attach, Report, Done after the
\* current stage returned success, or ends the run in failure; from Done no
\* step changes anything.
C1_StagesInOrder == [][StageStep]_vars

C1_Witness ==
    /\ command = "deploy"
    /\ pc = "done"
    /\ result = "nil"
    /\ Requested = AttachFns
    /\ ret["report"] # "none"

\* C2: once the Build stage or the Push stage has failed, the run is in
\* Done(failure) and no command of a later stage has been issued.
C2_BuildOrPushFailureAborts ==
    /\ ret["buildApplication"] = "err" =>
          pc = "done" /\ result = "err" /\ Entries(AfterBuildFns) = {}
    /\ ret[PushFn] \in {"err", "panic"} =>
          pc = "done" /\ result \in {"err", "panic"} /\ Entries(AfterPushFns) = {}

C2_Witness ==
    /\ command = "deploy"
    /\ pc = "done"
    /\ ret[PushFn] = "err"
    /\ log[Len(log)].op = "docker push"

\* the warnings a finished run has to show: one per failed attachment, and
\* the one for the pull permissions
ExpectedWarnings ==
    Cardinality({f \in AttachFns : ret[f] = "err"})
        + (IF ret["configureECRPullPermissions"] = "err" THEN 1 ELSE 0)

\* C3: a run whose service apply succeeded and in which an attachment failed
\* ends in Done(success) with each failure recorded as a warning: exactly one
\* warning when only the database attachment failed.
C3_AttachFailureIsWarning ==
    (/\ command = "deploy"
     /\ pc = "done"
     /\ ret["knServiceApply"] = "nil"
     /\ \E f \in AttachFns : ret[f] = "err")
    => /\ result = "nil"
       /\ Len(warnings) = ExpectedWarnings

\* C4: at the end of a run every requested attachment has been attempted,
\* whether or not an earlier attachment failed, and the run that had
\* attachment failures ends in success.
C4_AttachFailuresCollected ==
    (/\ command = "deploy"
     /\ pc = "done"
     /\ ret["knServiceApply"] = "nil")
    => /\ \A f \in Requested : ret[f] # "none"
       /\ (\E f \in AttachFns : ret[f] = "err") => result = "nil"

\* C5: the step taken from the Reporting position always ends the run in
\* Done(success) with no error, whether the tracking call is not configured,
\* succeeds or fails; a run whose tracking call failed has succeeded.
C5_ReportNeverChangesOutcome ==
    /\ [](ret["report"] # "none" => pc = "done" /\ result = "nil" /\ err = <<>>)
    /\ [][pc = "report" =>
            pc' = "done" /\ result' = "nil" /\ err' = <<>>
            /\ warnings' = warnings]_vars

C5_Witness ==
    /\ pc = "done"
    /\ ret["report"] = "err"
    /\ result = "nil"

C7_BuildSucceedsIffOnePathBuilt ==
    /\ ret["buildApplication"] = "nil" <=> \E i \in Entries(BuildFns) : log[i].ok
    /\ ret["buildApplication"] = "err" =>
          /\ pc = "done"
          /\ \A i \in Entries(BuildFns) : ~log[i].ok
          /\ log[Len(log)].op = "docker build"
          /\ Cardinality(Entries(BuildFns)) <= 2
    /\ (command = "deploy" /\ ret["buildApplication"] = "none") =>
          Stage(pc, result) \in {"pending", "building", "failed"}

C7_Witness ==
    /\ ret["buildApplication"] = "err"
    /\ Cardinality(Entries(BuildFns)) = 2

\* C8: no command is issued twice by the same function in one run.
C8_NoRetries ==
    \A i, j \in DOMAIN log :
        (log[i].fn = log[j].fn /\ log[i].op = log[j].op) => i = j

C8_Witness ==
    /\ command = "deploy"
    /\ pc = "done"
    /\ result = "nil"
    /\ OpEntries("pack build") # {}
    /\ OpEntries("docker build") # {}
    /\ OpEntries("docker tag") # {}
    /\ OpEntries("aws ecr create-repository") # {}
    /\ Requested = AttachFns
    /\ ret["report"] # "none"

\* C9: the Dockerfile the fallback build uses is the Node template iff the
\* Node manifest is present, the Python template iff the requirements file
\* is present and the Node manifest is not, the Go template iff only the Go
\* module file is present, and the placeholder iff no marker is present.
C9_TemplateFollowsMarkers ==
    \A j \in OpEntries("docker build") :
        LET t == log[j].arg[1]
        IN /\ t = dockerfile
           /\ t = "node:18-alpine" <=> "package.json" \in markers
           /\ t = "python:3.11-slim" <=>
                 ("requirements.txt" \in markers /\ "package.json" \notin markers)
           /\ t = "golang:1.21-alpine" <=>
                 ("go.mod" \in markers
                  /\ markers \cap {"package.json", "requirements.txt"} = {})
           /\ t = "alpine:latest" <=> markers = {}

C9_Witness ==
    /\ OpEntries("docker build") # {}
    /\ markers = {"requirements.txt", "go.mod"}
    /\ dockerfile = "python:3.11-slim"

\* the position of a command in the order of the Push stage's steps
PushRank(op) ==
    CASE op = "aws sts get-caller-identity" -> 1
      [] op = "docker tag" -> 2
      [] op = "aws ecr get-login-password" -> 3
      [] op = "docker login" -> 4
      [] op = "aws ecr describe-repositories" -> 5
      [] op = "aws ecr create-repository" -> 6
      [] op = "docker push" -> 7

\* the steps every push goes through before `docker push`
PushRequired ==
    {"aws sts get-caller-identity", "aws ecr get-login-password",
     "docker login", "aws ecr describe-repositories"}

\* the command did what the next step needs
StepSucceeded(e) ==
    /\ e.ok
    /\ e.op = "aws sts get-caller-identity" => TrimSpace(e.arg) # <<>>

\* C10: the commands of the Push stage are issued in the order identity,
\* (tag), credential, login, repository check, (repository create), push;
\* each one after all required earlier ones succeeded, a failed check being
\* followed by the create; a failed step is the last one and the stage
\* returns an error; the stage returns success only after a successful push.
C10_PushStepsInOrder ==
    LET P == Entries({PushFn})
        last == CHOOSE i \in P : \A j \in P : j <= i
    IN /\ \A i, j \in P :
             i < j => PushRank(log[i].op) < PushRank(log[j].op)
       /\ \A j \in P :
             \A op \in PushRequired :
                 PushRank(op) < PushRank(log[j].op) =>
                     \E i \in P :
                         /\ i < j
                         /\ log[i].op = op
                         /\ \/ StepSucceeded(log[i])
                            \/ op = "aws ecr describe-repositories"
       /\ \A i \in P :
             ~StepSucceeded(log[i]) =>
                 \/ i = last /\ ret[PushFn] = "err"
                 \/ /\ log[i].op = "aws ecr describe-repositories"
                    /\ \/ i = last /\ pc = "push_create"
                       \/ /\ i + 1 \in P
                          /\ log[i + 1].op = "aws ecr create-repository"
       /\ \A i \in P :
             log[i].op = "aws ecr create-repository" =>
                 /\ i - 1 \in P
                 /\ log[i - 1].op = "aws ecr describe-repositories"
                 /\ ~log[i - 1].ok
       /\ \A i \in P :
             log[i].op = "docker push" =>
                 \E k \in P :
                     /\ k < i
                     /\ log[k].ok
                     /\ log[k].op \in {"aws ecr describe-repositories",
                                       "aws ecr create-repository"}
       /\ ret[PushFn] = "nil" =>
             /\ P # {}
             /\ log[last].op = "docker push"
             /\ log[last].ok

C10_Witness ==
    /\ ret[PushFn] = "nil"
    /\ OpEntries("docker tag") # {}
    /\ OpEntries("aws ecr create-repository") # {}

\* the reference handed to the Push stage: the --image flag of the push
\* command, or what generateImageRef returned to the deploy pipeline
InputRef ==
    IF command = "push" THEN flags.image
    ELSE generateImageRef(getProjectName, log[1].ok, log[1].arg, environ).ref

Qualified(ref) == Contains(ref, DkrEcr)

C12_WitnessFailedTag ==
    /\ OpEntries("docker tag") # {}
    /\ ~log[Len(log)].ok
    /\ log[Len(log)].op = "docker tag"
    /\ pc = "done"

-----------------------------------------------------------------------------
(* Properties of the runs against one cluster (SpecCluster) *)

\* the objects of a collection that carry a name
Named(objects, name) == {o \in objects : o.name = name}

ApplyStep ==
    LET c == log'[1]
        e == c.arg
    IN /\ \A n \in AppNames : Cardinality(Named(cluster'.services, n)) <= 1
       /\ \A n \in AppNames :
             Found(cluster.services, n) => Found(cluster'.services, n)
       /\ c.fn = "knServiceApply" =>
             /\ e.out # "AlreadyExists"
             /\ e.healthy => c.ok
             /\ c.ok => Named(cluster'.services, e.in.name) = {e.obj}
             /\ c.ok /\ Found(cluster.services, e.in.name) =>
                   /\ e.out = "configured"
                   /\ Cardinality(cluster'.services)
                        = Cardinality(cluster.services)
             /\ ~c.ok => cluster' = cluster

\* C13: applying the service is idempotent: an apply for a name the cluster
\* already has configures that service in place and never fails because the
\* name exists; after any number of applies for a project there is exactly
\* one service of that name, the one applied last, and no run removes it.
C13_ApplyIsIdempotent == [][ApplyStep]_vars

C13_Witness ==
    /\ Len(log) = 1
    /\ log[1].fn = "knServiceApply"
    /\ log[1].arg.out = "configured"
    /\ Cardinality(cluster.services) = 1

DatabaseFns == {"attachDatabase", "newAttachDBCmd"}

RedisFns == {"attachRedis", "newAttachRedisCmd"}

SecretsFns == {"createSecrets", "newSecretsCmd"}

AttachStep ==
    LET c == log'[1]
        e == c.arg
    IN /\ \A o1, o2 \in cluster'.secrets : o1.name = o2.name => o1 = o2
       /\ c.op # "apply secret" => cluster'.secrets = cluster.secrets
       /\ c.op = "apply secret" =>
             /\ e.out = "created" => ~Found(cluster.secrets, e.obj.name)
             /\ e.out = "updated" => Found(cluster.secrets, e.obj.name)
             /\ e.healthy /\ e.obj # NoObject => c.ok
             /\ c.ok =>
                   /\ Named(cluster'.secrets, e.obj.name) = {e.obj}
                   /\ cluster'.secrets \ {e.obj}
                        = cluster.secrets \ Named(cluster.secrets, e.obj.name)
                   /\ c.fn \in DatabaseFns =>
                         Contains(e.obj.data.DATABASE_URL, e.in.value)
                   /\ c.fn \in RedisFns =>
                         Contains(e.obj.data.REDIS_URL, e.in.value)
                   /\ c.fn \in SecretsFns => e.obj.data = toEnvMap(e.in.value)
             /\ ~c.ok => cluster' = cluster

\* C14: attaching a credential is idempotent: each of the database, cache
\* and secrets attachments creates its credential when the cluster has none
\* of that name and updates it when it has one, and succeeds either way when
\* the cluster can be reached; a successful attachment leaves exactly one
\* credential of that name, holding the value just attached, and touches no
\* other credential; a failed one changes nothing.
C14_AttachIsIdempotent == [][AttachStep]_vars

C14_Witness ==
    /\ Len(log) = 1
    /\ log[1].fn = "attachDatabase"
    /\ log[1].arg.out = "updated"
    /\ log[1].arg.in.value = <<"db2.internal">>
    /\ Cardinality(cluster.secrets) = 3

\* the call of the latest run, when it got as far as building a Secret
SecretBuilt ==
    /\ Len(log) = 1
    /\ log[1].op = "apply secret"
    /\ log[1].arg.obj # NoObject

CredentialNamed(fns, suffix) ==
    SecretBuilt /\ log[1].fn \in fns =>
        log[1].arg.obj.name = log[1].arg.in.name \o <<suffix>>

\* C15: the database, cache and secrets credential of a project are named
\* <project>-db, <project>-redis and <project>-secrets, in the deploy
\* pipeline and in the standalone attach-db, attach-redis and secrets
\* commands alike.
C15_CredentialNames ==
    /\ CredentialNamed(DatabaseFns, "-db")
    /\ CredentialNamed(RedisFns, "-redis")
    /\ CredentialNamed(SecretsFns, "-secrets")

\* C15 as the code has it: the pipeline names the three credentials
\* <project>-db, <project>-redis and <project>-secrets, attach-db and
\* attach-redis name theirs <name>-db and <name>-redis, and the secrets
\* command names its Secret by --name itself, without a suffix.
C15_CredentialNamesAmended ==
    /\ CredentialNamed(DatabaseFns, "-db")
    /\ CredentialNamed(RedisFns, "-redis")
    /\ CredentialNamed({"createSecrets"}, "-secrets")
    /\ SecretBuilt /\ log[1].fn = "newSecretsCmd" =>
          log[1].arg.obj.name = log[1].arg.in.name

C15_Witness ==
    /\ SecretBuilt
    /\ log[1].fn = "newSecretsCmd"
    /\ log[1].ok
    /\ Found(cluster.secrets, <<"myapp">>)
    /\ Found(cluster.secrets, <<"myapp", "-secrets">>)
    /\ Found(cluster.secrets, <<"myapp", "-db">>)
    /\ Found(cluster.secrets, <<"myapp", "-redis">>)

\* strconv.Atoi of a one-digit annotation
Atoi(t) ==
    CASE t = "0" -> 0
      [] t = "1" -> 1
      [] t = "2" -> 2
      [] OTHER -> -1

\* C16: every service handed to kubectl apply, and so every service of the
\* cluster, carries a minimum-instance annotation of at least one.
C16_MinScaleAtLeastOne ==
    /\ \A y \in cluster.services : Atoi(y.minScale) >= 1
    /\ Len(log) = 1 /\ log[1].op = "kubectl apply" =>
          Atoi(log[1].arg.obj.minScale) >= 1

C16_Witness ==
    /\ Len(log) = 1
    /\ log[1].op = "kubectl apply"
    /\ log[1].ok
    /\ cluster.services # {}

\* C17: the rendered service names the project, the namespace, the image,
\* the port, the CPU and memory requests, and one environment entry per key
\* of the environment map.
C17_DescriptorNamesInputs ==
    Len(log) = 1 /\ log[1].op = "kubectl apply" =>
        LET in == log[1].arg.in
            y == log[1].arg.obj
        IN /\ y.name = in.name
           /\ y.namespace = in.ns
           /\ y.image = in.image
           /\ y.port = in.port
           /\ y.env = toEnvMap(in.envs)
           /\ "resources" \in DOMAIN y
           /\ y.resources = [cpu |-> in.cpu, mem |-> in.mem]

-----------------------------------------------------------------------------
(* Properties of the error classifier (SpecAgent) *)

Categories == {Registered[i] : i \in DOMAIN Registered}

\* the trigger phrases the tests contract for a category
ContractPhrases(c) ==
    UNION {{tc.logLine[i] : i \in DOMAIN tc.logLine} \ {"ERROR:"} :
               tc \in {t \in testCases : t.expected = c}}

\* the same phrase in another letter case
CaseVariants ==
    {<<"IMAGEPULLBACKOFF", "imagepullbackoff">>, <<"ERROR:", "error:">>}

ContainsAnyCase(line, ph) ==
    \E i \in DOMAIN line : line[i] = ph \/ <<line[i], ph>> \in CaseVariants

\* the categories of which a line contains a trigger phrase
Triggered(line) ==
    {c \in Categories : \E ph \in ContractPhrases(c) : ContainsAnyCase(line, ph)}

\* C18: a line that contains, in any letter case, trigger phrases of one
\* category is classified as exactly that category, and a line without any
\* trigger phrase gets no match.
C18_TriggerPhrasesClassified ==
    agent.match # "unset" =>
        /\ Triggered(agent.line) = {} => agent.match = "nil"
        /\ \A c \in Categories :
              Triggered(agent.line) = {c} => agent.match = c

C18_Witness ==
    /\ agent.match = "image_pull_backoff"
    /\ agent.line = <<"build successful", "IMAGEPULLBACKOFF">>

\* the earliest registered pattern that matches a line
FirstRegistered(line) ==
    LET hits == {i \in DOMAIN Registered :
                    Matches(Registered[i], ToLower(line))}
    IN IF hits = {} THEN "nil"
       ELSE Registered[CHOOSE i \in hits : \A j \in hits : i <= j]

\* C19: the classifier returns the earliest registered of the patterns that
\* match the line, and classifying the same line again returns the same
\* category.
C19_FirstRegisteredWins ==
    /\ agent.match # "unset" => agent.match = FirstRegistered(agent.line)
    /\ agent.again # "unset" => agent.again = agent.match

\* C20: the result of a call is one of the patterns that match the line
\* given to that call, or no match when none matches it, whatever lines the
\* rolling buffer holds.
C20_OneLinePerCall ==
    LET matching == {c \in Categories : Matches(c, ToLower(agent.line))}
    IN \A r \in {agent.match, agent.again} \ {"unset"} :
           IF matching = {} THEN r = "nil" ELSE r \in matching

C20_Witness ==
    /\ agent.match = "nil"
    /\ agent.again = "nil"
    /\ agent.line = <<"build successful">>
    /\ Len(agent.logs) = LogCapacity
    /\ agent.status = "fix_applied"

\* the candidates of an error, and the highest confidence among them
CandidatesOf(e) == {e.Suggestions[i] : i \in DOMAIN e.Suggestions}

Highest(e) ==
    CHOOSE c \in {f.Confidence : f \in CandidatesOf(e)} :
        \A f \in CandidatesOf(e) : f.Confidence <= c

\* the selector returned, and the fix is its own choice among the
\* candidates: no external analysis was substituted
SelectedLocally == agent.selected /\ agent.call.outcome # "ok"

\* C21: called with a nil error or with an error whose candidate list is
\* empty, the fix selector returns the nil fix, whether or not an external
\* analysis is configured; nothing is reported: the agent's status stays as
\* it was and no external call is made
C21_NoFixWithoutCandidates ==
    (agent.selected
        /\ (agent.given = NilError \/ agent.given.Suggestions = <<>>))
    => /\ agent.bestFix = NoFix
       /\ agent.status = "monitoring"
       /\ agent.call = ExternalCall("not called", NoFix)

C21_Witness ==
    /\ agent.selected
    /\ agent.external
    /\ agent.given = DeploymentError("unknown_error", <<>>)
    /\ agent.bestFix = NoFix

C25_EscalationFallsBack ==
    agent.selected =>
        /\ agent.call # ExternalCall("not called", NoFix)
            => /\ agent.external
               /\ agent.given.Suggestions # <<>>
               /\ Highest(agent.given) < 50
        /\ agent.call.outcome \in {"failed", "timeout"}
            => /\ agent.bestFix # NoFix
               /\ agent.bestFix =
                    selectBestFix([agent EXCEPT !.external = FALSE],
                                  agent.given,
                                  ExternalCall("not called", NoFix)).fix

C25_Witness ==
    /\ agent.selected
    /\ agent.call = ExternalCall("timeout", NoFix)
    /\ agent.given.Suggestions =
        <<FixStrategy("clear_cache", 30), FixStrategy("manual_check", 30)>>
    /\ agent.bestFix = FixStrategy("clear_cache", 30)

\* the last n lines of a sequence of lines, in their order
LastLines(s, n) ==
    IF Len(s) <= n THEN s ELSE SubSeq(s, Len(s) - n + 1, Len(s))

\* C26: whatever lines the monitor has pushed, the rolling buffer is never
\* longer than its capacity and holds the most recent of the pushed lines in
\* the order of their arrival, so the lines gone are the oldest
C26_BufferHoldsMostRecent ==
    /\ Len(agent.logs) <= LogCapacity
    /\ agent.logs = LastLines(agent.pushed, LogCapacity)

C26_Witness ==
    /\ Len(agent.pushed) > LogCapacity
    /\ agent.pushed[1] # agent.pushed[LogCapacity + 1]
    /\ Len(agent.logs) = LogCapacity
    /\ Head(agent.logs) = agent.pushed[Len(agent.pushed) - LogCapacity + 1]

\* whether a line carries a trigger phrase of some category
HasError(line) ==
    \E c \in DOMAIN TriggerPhrases : Matches(c, ToLower(line))

\* C27: a freshly created agent reports the status monitoring; given a
\* finite stream, the monitor eventually has appended and classified every
\* line of it, the logs are from then on non-empty unless the stream was
\* empty, a line with an error leads to the status error_detected, and that
\* status leads to fix_applied or fix_failed
C27_EveryLineIsProcessed ==
    /\ []((agent.pushed = <<>> /\ agent.mpc = "scan")
            => agent.status = "monitoring")
    /\ <>[](agent.stream = <<>> /\ agent.mpc = "scan"
            /\ agent.pushed = agent.input)
    /\ <>[](agent.input = <<>> \/ agent.logs # <<>>)
    /\ (agent.mpc = "classify" /\ HasError(agent.cur))
            ~> (agent.status = "error_detected")
    /\ (agent.status = "error_detected")
            ~> (agent.status \in {"fix_applied", "fix_failed"})

C27_Witness ==
    /\ Len(agent.input) = MaxStream
    /\ agent.pushed = agent.input
    /\ agent.mpc = "scan"
    /\ HasError(agent.input[1])
    /\ ~HasError(agent.input[MaxStream])
    /\ agent.status = "fix_applied"
    /\ agent.logs # <<>>

PackLookupOrder ==
    \A files \in SUBSET PackLocations :
        LET bundled == files \cap {"execDir/cmd/deployer/pack", "execDir/pack"}
        IN /\ bundled # {} => findPackCLI(files) \in bundled
           /\ (bundled = {} /\ "PATH/pack" \in files)
                => findPackCLI(files) = "PATH/pack"
           /\ files = {} => findPackCLI(files) = ""

\* the build step has just looked for the pack CLI
PackLookedUp == pc \in {"pack", "docker"}

StepError(e) ==
    IF e.op \in {"kubectl apply", "apply secret"} THEN e.arg.out
    ELSE "exit status 1"

\* errors a step makes itself, without a failed command behind them
OwnErrors ==
    {"image is required", "app and image are required",
     "AWS account ID is empty", "invalid image"}

\* C31: when a run ends with an error, the innermost message of the error
\* it returns is the error of the step that failed: of the last command
\* issued when that command failed, else the message of the check that
\* refused to go on; stages only put their own message in front
C31_RootCausePreserved ==
    (pc = "done" /\ result = "err")
    => /\ err # <<>>
       /\ IF log # <<>> /\ ~log[Len(log)].ok
          THEN err[Len(err)] = StepError(log[Len(log)])
          ELSE err[Len(err)] \in OwnErrors

C31_Witness ==
    /\ command = "deploy"
    /\ pc = "done"
    /\ err = <<"push failed", "failed to create ECR repository",
               "exit status 1">>
    /\ log[Len(log)].op = "aws ecr create-repository"

\* what the deploy command runs after knServiceApply
AfterApplyFns == {"configureECRPullPermissions", "report"} \cup AttachFns

\* C33: once knServiceApply has failed, the run is in Done(failure) with the
\* apply as the last command issued: the pull permissions were not
\* configured, nothing was attached (no call made, no credential object in
\* the cluster) and no report was sent
C33_FailedApplyEndsRun ==
    ret["knServiceApply"] = "err"
    => /\ pc = "done"
       /\ result = "err"
       /\ Entries(AfterApplyFns) = {}
       /\ log[Len(log)].fn = "knServiceApply"
       /\ cluster.secrets = EmptyCluster.secrets

C33_Witness ==
    /\ ret["knServiceApply"] = "err"
    /\ pc = "done"
    /\ flags.dbHost # <<>>
    /\ flags.redisHost # <<>>
    /\ flags.secrets # <<>>
    /\ flags.serverURL # <<>>

\* C34: the Push stage never ends in a run-time panic: for every image
\* reference dockerPushWithECRLogin returns nil or an error value
C34_PushNeverCrashes ==
    /\ ret[PushFn] # "panic"
    /\ result # "panic"

\* the repository `docker push` writes to: what follows the registry host
\* of a registry-qualified reference, without the tag
PushedRepository(ref) ==
    LET first == CHOOSE i \in 1..Len(ref) :
                     /\ ref[i] = "/"
                     /\ \A j \in 1..(i - 1) : ref[j] # "/"
    IN Split(SubSeq(ref, first + 1, Len(ref)), ":")[1]

\* C35: the repository the Push stage checks, and creates when the check
\* fails, is the repository of the reference it pushes
C35_CheckedRepositoryIsPushed ==
    \A i \in OpEntries("aws ecr describe-repositories")
                \cup OpEntries("aws ecr create-repository") :
        log[i].arg = PushedRepository(imageRef)

\* a command has returned the error of a build to its caller
BuildFailureReported ==
    /\ pc = "done"
    /\ result = "err"
    /\ \/ ret["buildApplication"] = "err"
       \/ command = "build" /\ OpEntries("pack build") # {}

\* C36: deploy and build report a build failure only after the fallback
\* Dockerfile build has been run and has failed, and no buildpack build has
\* succeeded
C36_BuildFailsAfterBothBuilds ==
    BuildFailureReported
    => /\ \E i \in OpEntries("docker build") : ~log[i].ok
       /\ \A i \in OpEntries("pack build") : ~log[i].ok

\* the call just made was a secrets attachment given an invalid pair
InvalidPairGiven(l) ==
    /\ l # <<>>
    /\ l[Len(l)].fn \in {"createSecrets", "newSecretsCmd"}
    /\ l[Len(l)].arg.in.name # <<>>
    /\ \E i \in DOMAIN l[Len(l)].arg.in.value :
           ~ValidPair(l[Len(l)].arg.in.value[i])

\* C37: a secrets attachment given a list with a pair that is not key=value
\* fails and leaves the cluster's credential objects as they were, whatever
\* the other pairs of the list; with a cluster client at hand the error is
\* the invalid-pair error
C37_InvalidPairChangesNothing ==
    [][InvalidPairGiven(log')
       => /\ cluster' = cluster
          /\ ~log'[Len(log')].ok
          /\ log'[Len(log')].arg.out
                \in {"invalid secret pair", "invalid pair", "getClient failed"}
          /\ log'[Len(log')].arg.out = "getClient failed"
                => ~log'[Len(log')].arg.healthy]_vars

C37_Witness ==
    /\ InvalidPairGiven(log)
    /\ log[1].fn = "createSecrets"
    /\ log[1].arg.in.value = <<<<"KEY", "=", "value">>, <<"BAD">>>>
    /\ log[1].arg.out = "invalid secret pair"
    /\ cluster.secrets # EmptyCluster.secrets

\* the account of an ECR_URL of the form <account>.dkr.ecr.<region>.
\* amazonaws.com, <<>> for any other value
EcrUrlAccount(url) ==
    IF Contains(url, DkrEcr) /\ url[1] \notin {".", "dkr"}
    THEN Split(url, ".")[1]
    ELSE <<>>

\* C38: when generateImageRef has returned after a failed identity lookup
\* with AWS_ACCOUNT_ID unset and ECR_URL of the form
\* <account>.dkr.ecr.<region>.amazonaws.com, the reference is the registry
\* reference of that account; the reference is the local <project>:latest
\* only when the lookup failed, AWS_ACCOUNT_ID is unset and ECR_URL gives no
\* account
C38_AccountFromEcrUrl ==
    (command = "deploy" /\ pc = "build")
    => /\ (/\ ~log[1].ok
           /\ environ.AWS_ACCOUNT_ID = <<>>
           /\ EcrUrlAccount(environ.ECR_URL) # <<>>)
          => imageRef = EcrImageRef(EcrUrlAccount(environ.ECR_URL),
                                    getProjectName)
       /\ imageRef = LocalImageRef(getProjectName)
          => /\ ~log[1].ok
             /\ environ.AWS_ACCOUNT_ID = <<>>
             /\ EcrUrlAccount(environ.ECR_URL) = <<>>

\* C32: every run of the pipeline eventually is in Done
C32_EveryRunEnds == <>(pc = "done")

\* C39: when attachments of one credential that ran at the same time have
\* all returned, each has returned without error and the cluster holds
\* exactly one Secret of that name, with the value of one of them
C39_ConcurrentAttachmentsSucceed ==
    (calls # <<>> /\ \A i \in DOMAIN calls : calls[i].pc = "done")
    => /\ \A i \in DOMAIN calls : Applied(calls[i].out)
       /\ Cardinality({o \in cluster.secrets :
                          o.name = calls[1].sec.name}) = 1
       /\ \E i \in DOMAIN calls : calls[i].sec \in cluster.secrets

\* the POST requests that have stored their record, among those of turn
\* less than t
StoredBefore(t) ==
    {i \in DOMAIN calls :
        calls[i].kind = "POST" /\ calls[i].tick > 0 /\ calls[i].tick < t}

\* the records a store holds after the POSTs of turn less than t: of each id
\* the record of the last of them
RecordsBefore(t) ==
    {calls[i].d : i \in {j \in StoredBefore(t) :
                            \A k \in StoredBefore(t) :
                                calls[k].d.id = calls[j].d.id
                                    => calls[k].tick <= calls[j].tick}}

\* C40: whatever the interleaving of the requests, the store holds one
\* record per id, filed under its id: of each id the record of the last POST
\* that stored one (the first POST of an id adds, a later one replaces, none
\* that has stored is lost); a POST without id is stored under an id no
\* other request has; and a GET returns exactly the records of the POSTs
\* that had stored before it read, among them every POST answered before
\* the GET arrived
C40_StoreKeepsOneRecordPerId ==
    /\ \A k \in DOMAIN store : store[k].id = k
    /\ {store[k] : k \in DOMAIN store} = RecordsBefore(MaxRequests + 2)
    /\ \A i \in DOMAIN calls :
        /\ (calls[i].kind = "POST" /\ calls[i].body.id = ""
                /\ calls[i].pc \notin {"start"} /\ calls[i].valid)
           => /\ calls[i].d.id # ""
              /\ \A j \in DOMAIN calls \ {i} :
                    calls[j].d.id # calls[i].d.id
                        /\ calls[j].body.id # calls[i].d.id
        /\ (calls[i].kind = "POST" /\ calls[i].pc = "done")
           => IF calls[i].valid
              THEN calls[i].tick > 0 /\ calls[i].d.id \in DOMAIN store
              ELSE calls[i].tick = 0 /\ calls[i].resp.code = 400
        /\ (calls[i].kind = "GET" /\ calls[i].tick > 0)
           => /\ calls[i].resp.list = RecordsBefore(calls[i].tick)
              /\ \A j \in calls[i].before :
                    calls[j].tick < calls[i].tick

C40_Witness ==
    /\ Len(calls) = 3
    /\ calls[3].kind = "GET"
    /\ calls[3].pc = "done"
    /\ calls[3].before = {1}
    /\ calls[2].pc = "respond"
    /\ calls[2].body.id = ""
    /\ calls[1].body.id = "myapp:1"
    /\ Cardinality(calls[3].resp.list) = 2

C40_WitnessReplaced ==
    /\ Len(calls) = 3
    /\ \A i \in 1..3 : calls[i].pc = "done"
    /\ calls[1].body = Deployment("myapp:1", "deployed")
    /\ calls[2].body = Deployment("myapp:1", "failed")
    /\ calls[3].kind = "GET"
    /\ calls[3].resp.list = {Deployment("myapp:1", "deployed")}
    /\ calls[2].tick < calls[1].tick

====
